---------------------------- MODULE Spec2Model ----------------------------
(***************************************************************************)
(* Model of the Trenvy password-reset protocol:                            *)
(*   - the Bloom filter            (services/BloomFilter.js)               *)
(*   - the three rate limiters     (middleware/rateLimiter.js)             *)
(*   - the email filter service    (services/UsernameVerifier.js)          *)
(*   - forgot-password, reset-password, check-reset-token                  *)
(*                                 (routes/passwordReset.js)               *)
(*   - account creation            (routes/user.js)                        *)
(*   - GET /profile, PUT /profile, confirm-email (routes/userprofile.js)   *)
(*                                                                         *)
(* Strings are sequences of one-character strings so that toLowerCase()    *)
(* and trim() are computed, not assumed.  SHA-256 is replaced by a         *)
(* polynomial digest over character codes (Digest); everything around it   *)
(* (key || i, first four bytes, mod size, byte/bit indexing) follows the   *)
(* source.                                                                 *)
(*                                                                         *)
(* Specifications:                                                         *)
(*   Spec        one forgot-password request next to reset-password and    *)
(*               check-reset-token requests, signup and token expiry       *)
(*   SpecRace    reset-password requests racing each other                 *)
(*   SpecReplay  one caller sending reset-password and check-reset-token   *)
(*               requests for one token, one after the other               *)
(*   SpecRefresh the username filter under lookups, signups and refresh()  *)
(*   SpecMail    forgot-password and reset-password next to the scheduled  *)
(*               email sends, which succeed or fail                        *)
(*   SpecLive    forgot-password and reset-password requests of every      *)
(*               shape, every awaited call eventually returning or failing *)
(*   SpecConfirm confirm-email requests racing for one pending change      *)
(*   SpecProfile GET /profile and PUT /profile next to reset-password      *)
(*   SpecBloom   a stand-alone filter under add, mightExist and clear      *)
(*   SpecRL      the limiters under concurrent callers and window expiry   *)
(***************************************************************************)
EXTENDS Integers, Sequences, FiniteSets, TLC

(***************************************************************************)
(* Bounds of the model                                                     *)
(***************************************************************************)
BloomSize == 16
BloomHashCount == 2
MaxKeyLen == 2
MaxAdds == 3

(***************************************************************************)
(* Strings                                                                 *)
(***************************************************************************)
Alphabet == {"a", "A", "b", " "}

CharCode(c) ==
    CASE c = "a" -> 97
      [] c = "A" -> 65
      [] c = "b" -> 98
      [] c = " " -> 32
      [] c = "@" -> 64
      [] c = "." -> 46
      [] c = "0" -> 48
      [] c = "1" -> 49
      [] c = "2" -> 50
      [] c = "3" -> 51
      [] OTHER   -> 63

Strings(n) == UNION {[1..len -> Alphabet] : len \in 0..n}

LowerChar(c) == IF c = "A" THEN "a" ELSE c

toLowerCase(s) == [i \in 1..Len(s) |-> LowerChar(s[i])]

RECURSIVE trimStart(_)
trimStart(s) ==
    IF s # <<>> /\ Head(s) = " " THEN trimStart(Tail(s)) ELSE s

RECURSIVE trimEnd(_)
trimEnd(s) ==
    IF s # <<>> /\ s[Len(s)] = " " THEN trimEnd(SubSeq(s, 1, Len(s) - 1)) ELSE s

trim(s) == trimEnd(trimStart(s))

\* i.toString() for the small indices the model uses
DigitString(i) ==
    CASE i = 0 -> <<"0">>
      [] i = 1 -> <<"1">>
      [] i = 2 -> <<"2">>
      [] OTHER -> <<"3">>

(***************************************************************************)
(* Bloom filter (createBloomFilter)                                        *)
(***************************************************************************)
\* Digest stands for the first four bytes of sha256(str) read as an unsigned
\* integer; its range is kept to 16 bits so that the arithmetic stays within
\* the integers of the model checker.
DigestRange == 2 ^ 16

RECURSIVE Digest(_, _)
Digest(s, acc) ==
    IF s = <<>> THEN acc
    ELSE Digest(Tail(s), (acc * 31 + CharCode(Head(s))) % DigestRange)

getHashes(str, hashCount, size) ==
    [i \in 1..hashCount |-> Digest(str \o DigitString(i - 1), 7) % size]

ByteCount(size) == (size + 7) \div 8

EmptyBitArray(size) == [b \in 0..(ByteCount(size) - 1) |-> 0]

BitIsSet(byte, bitIndex) == (byte \div (2 ^ bitIndex)) % 2 = 1

\* bitArray[byteIndex] |= 1 << bitIndex
OrBit(byte, bitIndex) ==
    IF BitIsSet(byte, bitIndex) THEN byte ELSE byte + 2 ^ bitIndex

RECURSIVE SetBits(_, _)
SetBits(bits, hashes) ==
    IF hashes = <<>> THEN bits
    ELSE LET hash      == Head(hashes)
             byteIndex == hash \div 8
             bitIndex  == hash % 8
         IN  SetBits([bits EXCEPT ![byteIndex] = OrBit(@, bitIndex)], Tail(hashes))

\* a faulty variant of add: the key is hashed as given, not normalised
BloomAddAsGiven(bits, username) ==
    SetBits(bits, getHashes(username, BloomHashCount, BloomSize))

BloomAdd(bits, username) ==
    LET normalizedUsername == trim(toLowerCase(username))
    IN  SetBits(bits, getHashes(normalizedUsername, BloomHashCount, BloomSize))

BloomMightExist(bits, username) ==
    LET normalizedUsername == trim(toLowerCase(username))
        hashes == getHashes(normalizedUsername, BloomHashCount, BloomSize)
    IN  \A i \in 1..Len(hashes) :
            BitIsSet(bits[hashes[i] \div 8], hashes[i] % 8)

(***************************************************************************)
(* State of a stand-alone filter                                           *)
(***************************************************************************)
VARIABLES
    bitArray,       \* the filter's Buffer, one integer 0..255 per byte
    elementCount,   \* the filter's element counter
    bfAdded,        \* history: keys (as normalised) added since the last clear()
    bfLast          \* history: the last call, what it found and what it returned

bloomVars == <<bitArray, elementCount, bfAdded, bfLast>>

VARIABLES
    counters,     \* Redis: rate-limit key -> [value, expire] or Nil
    rlTarget,     \* the limiter the concurrent callers exercise
    rlPending,    \* key -> number of limiter calls issued and not yet run
    rlStats,      \* history, per key and counter window: calls allowed and
                  \* denied by the script, and calls allowed by the catch branch
    rlAge         \* history: key -> seconds since the counter was created

rlVars == <<counters, rlTarget, rlPending, rlStats, rlAge>>

VARIABLES
    users,               \* system of record: userId -> Nil or the user row
    tokens,              \* Redis: tokenId -> Nil or the stored token record
    emailBits,           \* emailBloomFilter's bit array
    isEmailInitialized,  \* UsernameVerifier.js module state
    slot,                \* the requests in progress: locals and position
    out,                 \* the request that has just been answered, if any
    nextTokenId,         \* stands for uuidv4(): the next unused token id
    nForgot,             \* forgot-password requests started so far
    resetsLeft,          \* reset-password requests that may still start
    successes,           \* history: tokenId -> success responses of reset-password
    expired,             \* history: the token ids whose record Redis expired
    mailbox              \* the sends scheduled with setImmediate, in order,
                         \* each scheduled, sent or failed

protoVars == <<users, tokens, emailBits, isEmailInitialized, slot, out,
               nextTokenId, nForgot, resetsLeft, successes, expired, mailbox>>

VARIABLES
    isInitialized,       \* UsernameVerifier.js module state: the username
                         \* filter (bitArray, elementCount) has been built
    verifierCallsLeft    \* verifier calls and signups that may still start

verifierVars == <<isInitialized, verifierCallsLeft>>

VARIABLES
    emailChange,         \* the EmailChange row of the pending email change
    cache,               \* Redis: userId -> Nil or the cached profile
    profileCallsLeft     \* profile and confirm-email requests that may still start

profileVars == <<emailChange, cache, profileCallsLeft>>

vars == <<bloomVars, rlVars, protoVars, verifierVars, profileVars>>

NoCall == [op |-> "none"]

BloomInit ==
    /\ bitArray = EmptyBitArray(BloomSize)
    /\ elementCount = 0
    /\ bfAdded = {}
    /\ bfLast = NoCall

BfAdd(k) ==
    /\ elementCount < MaxAdds
    /\ bitArray' = BloomAdd(bitArray, k)
    /\ elementCount' = elementCount + 1
    /\ bfAdded' = bfAdded \cup {trim(toLowerCase(k))}
    /\ bfLast' = [op |-> "add", key |-> k,
                  repeated |-> (bfLast.op = "add" /\ bfLast.key = k),
                  bitsBefore |-> bitArray, countBefore |-> elementCount]
    /\ UNCHANGED <<rlVars, protoVars, verifierVars, profileVars>>

BfMightExist(k) ==
    /\ bfLast' = [op |-> "mightExist", key |-> k,
                  result |-> BloomMightExist(bitArray, k),
                  added |-> trim(toLowerCase(k)) \in bfAdded]
    /\ UNCHANGED <<bitArray, elementCount, bfAdded>>
    /\ UNCHANGED <<rlVars, protoVars, verifierVars, profileVars>>

BfClear ==
    /\ elementCount > 0
    /\ bitArray' = EmptyBitArray(BloomSize)
    /\ elementCount' = 0
    /\ bfAdded' = {}
    /\ bfLast' = [op |-> "clear"]
    /\ UNCHANGED <<rlVars, protoVars, verifierVars, profileVars>>

BloomNext ==
    \/ \E k \in Strings(MaxKeyLen) : BfAdd(k)
    \/ \E k \in Strings(MaxKeyLen) : BfMightExist(k)
    \/ BfClear

(***************************************************************************)
(* Rate limiters (middleware/rateLimiter.js)                               *)
(***************************************************************************)
IpLimit == 20
IpWindow == 3600
UserLimit == 5
UserWindow == 3600
TokenLimit == 10
TokenWindow == 300

\* what Redis answers for an absent key
Nil == [nil |-> TRUE]

Min(a, b) == IF a <= b THEN a ELSE b

\* a faulty variant of the script: it compares with > where the script has >=
LuaScriptOffByOne(current, limit, window) ==
    IF current # Nil /\ current.value > limit
    THEN [ret |-> 1, entry |-> current]
    ELSE LET count == (IF current = Nil THEN 0 ELSE current.value) + 1
         IN  [ret |-> 0,
              entry |-> [value |-> count,
                         expire |-> IF count = 1 THEN window ELSE current.expire]]

\* a faulty variant of the script: every increment sets the expiry anew
LuaScriptRenewsExpiry(current, limit, window) ==
    IF current # Nil /\ current.value >= limit
    THEN [ret |-> 1, entry |-> current]
    ELSE LET count == (IF current = Nil THEN 0 ELSE current.value) + 1
         IN  [ret |-> 0, entry |-> [value |-> count, expire |-> window]]

\* a faulty variant of the script: a denied call is counted too
LuaScriptCountsDenied(current, limit, window) ==
    LET count == (IF current = Nil THEN 0 ELSE current.value) + 1
    IN  [ret |-> IF current # Nil /\ current.value >= limit THEN 1 ELSE 0,
         entry |-> [value |-> count,
                    expire |-> IF count = 1 THEN window ELSE current.expire]]

\* The Lua script, run by Redis as one unit.  current is the value GET
\* returns (Nil when the key is absent).  ret = 1 means "limited".
LuaScript(current, limit, window) ==
    IF current # Nil /\ current.value >= limit
    THEN [ret |-> 1, entry |-> current]
    ELSE LET count == (IF current = Nil THEN 0 ELSE current.value) + 1
         IN  [ret |-> 0,
              entry |-> [value |-> count,
                         expire |-> IF count = 1 THEN window ELSE current.expire]]

\* redisClient.eval(luaScript, {keys: [key], arguments: [limit, window]})
\* followed by "return result === 1"
EvalLimiter(store, key, limit, window) ==
    LET r == LuaScript(store[key], limit, window)
    IN  [limited |-> (r.ret = 1), store |-> [store EXCEPT ![key] = r.entry]]

\* a faulty variant of the catch branch: it fails closed
LimiterFailClosed(store) == [limited |-> TRUE, store |-> store]

\* the catch branch: fail open, the store is not touched
LimiterFailOpen(store) == [limited |-> FALSE, store |-> store]

IpKey(ip) == <<"password_reset:rate:ip", ip>>
UserKey(userId) == <<"password_reset:rate:user", userId>>
TokenRateKey(tokenId) == <<"password_reset:validate:token", tokenId>>

checkIpRateLimit(store, ip, storeUp) ==
    IF storeUp THEN EvalLimiter(store, IpKey(ip), IpLimit, IpWindow)
    ELSE LimiterFailOpen(store)

checkUserRateLimit(store, userId, storeUp) ==
    IF storeUp THEN EvalLimiter(store, UserKey(userId), UserLimit, UserWindow)
    ELSE LimiterFailOpen(store)

checkTokenRateLimit(store, tokenId, storeUp) ==
    IF storeUp THEN EvalLimiter(store, TokenRateKey(tokenId), TokenLimit, TokenWindow)
    ELSE LimiterFailOpen(store)

LimitOf(key) ==
    CASE key[1] = "password_reset:rate:ip" -> IpLimit
      [] key[1] = "password_reset:rate:user" -> UserLimit
      [] OTHER -> TokenLimit

(***************************************************************************)
(* The limiters under concurrent callers                                   *)
(***************************************************************************)
MaxExtraCalls == 2      \* calls in one window beyond the limit
MaxPending == 2         \* calls in flight at once
MaxFailures == 1        \* calls in one window that find the store unreachable
TicksPerWindow == 3     \* steps of the clock in one window

Limiters == {"password_reset:rate:ip", "password_reset:rate:user",
             "password_reset:validate:token"}

RlKeys == {IpKey(1), UserKey(1), UserKey(2), TokenRateKey(1)}

NoStats == [allowed |-> 0, denied |-> 0, failedOpen |-> 0]

RlInit ==
    /\ counters = [k \in RlKeys |-> Nil]
    /\ rlTarget \in Limiters
    /\ rlPending = [k \in RlKeys |-> 0]
    /\ rlStats = [k \in RlKeys |-> NoStats]
    /\ rlAge = [k \in RlKeys |-> 0]

RlPendingTotal == rlPending[IpKey(1)] + rlPending[UserKey(1)]
                    + rlPending[UserKey(2)] + rlPending[TokenRateKey(1)]

RlCallsInWindow(key) ==
    rlStats[key].allowed + rlStats[key].denied + rlStats[key].failedOpen
        + rlPending[key]

\* a caller invokes the limiter: the call is in flight
RlIssue(key) ==
    /\ key[1] = rlTarget
    /\ RlCallsInWindow(key) < LimitOf(key) + MaxExtraCalls
    /\ RlPendingTotal < MaxPending
    /\ rlPending' = [rlPending EXCEPT ![key] = @ + 1]
    /\ UNCHANGED <<counters, rlTarget, rlStats, rlAge>>
    /\ UNCHANGED <<bloomVars, protoVars, verifierVars, profileVars>>

RlRecord(key, r, storeUp) ==
    /\ rlPending[key] > 0
    /\ storeUp \/ rlStats[key].failedOpen < MaxFailures
    /\ counters' = r.store
    /\ rlPending' = [rlPending EXCEPT ![key] = @ - 1]
    /\ rlStats' = [rlStats EXCEPT ![key] =
            IF ~storeUp THEN [@ EXCEPT !.failedOpen = @ + 1]
            ELSE IF r.limited THEN [@ EXCEPT !.denied = @ + 1]
            ELSE [@ EXCEPT !.allowed = @ + 1]]
    /\ UNCHANGED <<rlTarget, rlAge>>
    /\ UNCHANGED <<bloomVars, protoVars, verifierVars, profileVars>>

RlRunIp(ip, storeUp) ==
    RlRecord(IpKey(ip), checkIpRateLimit(counters, ip, storeUp), storeUp)

RlRunUser(userId, storeUp) ==
    RlRecord(UserKey(userId), checkUserRateLimit(counters, userId, storeUp), storeUp)

RlRunToken(tokenId, storeUp) ==
    RlRecord(TokenRateKey(tokenId), checkTokenRateLimit(counters, tokenId, storeUp), storeUp)

WindowOf(key) ==
    CASE key[1] = "password_reset:rate:ip" -> IpWindow
      [] key[1] = "password_reset:rate:user" -> UserWindow
      [] OTHER -> TokenWindow

\* a key's time to live runs down; Redis removes the key when it is used up
AfterSeconds(entry, seconds) ==
    IF entry = Nil \/ entry.expire <= seconds THEN Nil
    ELSE [entry EXCEPT !.expire = @ - seconds]

\* time passes: a part of the exercised limiter's window
RlTick ==
    LET seconds == WindowOf(<<rlTarget>>) \div TicksPerWindow
    IN  /\ \E key \in RlKeys : counters[key] # Nil
        /\ counters' = [key \in RlKeys |-> AfterSeconds(counters[key], seconds)]
        /\ rlStats' = [key \in RlKeys |->
                          IF counters'[key] = Nil THEN NoStats ELSE rlStats[key]]
        /\ rlAge' = [key \in RlKeys |->
                        IF counters'[key] = Nil THEN 0 ELSE rlAge[key] + seconds]
        /\ UNCHANGED <<rlTarget, rlPending>>
        /\ UNCHANGED <<bloomVars, protoVars, verifierVars, profileVars>>

RlNext ==
    \/ \E key \in RlKeys : RlIssue(key)
    \/ \E storeUp \in BOOLEAN : RlRunIp(1, storeUp)
    \/ \E userId \in {1, 2}, storeUp \in BOOLEAN : RlRunUser(userId, storeUp)
    \/ \E storeUp \in BOOLEAN : RlRunToken(1, storeUp)
    \/ RlTick

(***************************************************************************)
(* The password-reset protocol (routes/passwordReset.js)                   *)
(***************************************************************************)
TOKEN_TTL == 900

MaxForgot == 1          \* forgot-password requests that pass validation
MaxRedeem == 1          \* reset-password requests next to forgot-password
MaxReset == 2           \* reset-password requests that race each other
MaxReplay == 12         \* reset-password requests one caller sends in a row
MaxLookups == 3         \* reset-password requests for dead and unknown ids

Slots == {1, 2}         \* requests in progress at once
UserIds == {1, 2}
ClientIps == {1}
Secrets == {1, 2}       \* values a caller may present as the token
NewPasswords == {"p1"}

EmailA == <<"a", "@", "b", ".", "b">>
EmailAVariant == <<"A", "@", "b", ".", "b", " ">>
EmailB == <<"b", "@", "b", ".", "b">>
EmailC == <<"b", "@", "a", ".", "b">>
EmailBad == <<"a", "b">>
NoEmail == <<>>

\* what a caller may send as req.body.email (NoEmail: missing or empty)
EmailInputs == {EmailA, EmailAVariant, EmailB, EmailC, EmailBad, NoEmail}
\* what a new account may register with
SignupEmails == {EmailB}

NoSpaceOrAt(s) == \A i \in 1..Len(s) : s[i] # " " /\ s[i] # "@"

\* /^[^\s@]+@[^\s@]+\.[^\s@]+$/.test(s)
emailRegexTest(s) ==
    \E i \in 1..Len(s), j \in 1..Len(s) :
        /\ s[i] = "@" /\ s[j] = "."
        /\ 1 < i /\ i + 1 < j /\ j < Len(s)
        /\ NoSpaceOrAt(SubSeq(s, 1, i - 1))
        /\ NoSpaceOrAt(SubSeq(s, i + 1, j - 1))
        /\ NoSpaceOrAt(SubSeq(s, j + 1, Len(s)))

\* stands for HMAC-SHA256(RESET_TOKEN_SECRET, data) as a hex string
hmacHash(data) == (data * 7 + 3) % 11

\* Buffer.from(.., 'hex') of both digests, equal lengths, crypto.timingSafeEqual
timingSafeEqual(a, b) == a = b

hashPasswordArgon2(password) == <<"argon2id", password>>

(***************************************************************************)
(* Responses                                                               *)
(***************************************************************************)
GenericMessage == "If this email is registered, you will receive a password reset link."

ForgotMissingEmailResponse == [status |-> 400, message |-> "Email is required"]
ForgotInvalidEmailResponse == [status |-> 400, message |-> "Invalid email format"]
ForgotIpLimitedResponse    == [status |-> 200, message |-> GenericMessage]
ForgotBloomMissResponse    == [status |-> 200, message |-> GenericMessage]
ForgotUserNotFoundResponse == [status |-> 200, message |-> GenericMessage]
ForgotUserLimitedResponse  == [status |-> 200, message |-> GenericMessage]
ForgotSuccessResponse      == [status |-> 200, message |-> GenericMessage]
\* a faulty variant: the catch block reports the fault
ForgotErrorResponseLeaky   == [status |-> 500, message |-> "An error occurred"]
ForgotErrorResponse        == [status |-> 200, message |-> GenericMessage]

\* stands for uuidv4(): token 1 is the one issued before the model starts,
\* the others are issued in order; NeverIssued is a well-formed id that no
\* request was ever given
NeverIssued == 0
IssuableIds == 1..(MaxForgot + 1)
TokenIds == {NeverIssued} \cup IssuableIds

\* stands for crypto.randomBytes(48).toString('base64url') of token t
rawTokenOf(t) == IF t % 2 = 1 THEN 1 ELSE 2

ProtoKeys == {IpKey(ip) : ip \in ClientIps} \cup {UserKey(u) : u \in UserIds}
                \cup {TokenRateKey(t) : t \in TokenIds}

(***************************************************************************)
(* System of record                                                        *)
(***************************************************************************)
\* prisma.user.findUnique({ where: { email } }): 0 when there is no such row
findUserByEmail(email) ==
    IF \E u \in UserIds : users[u] # Nil /\ users[u].email = email
    THEN CHOOSE u \in UserIds : users[u] # Nil /\ users[u].email = email
    ELSE 0

\* prisma.user.findMany({ select: { email: true } })
allEmails == {users[u].email : u \in {x \in UserIds : users[x] # Nil}}

(***************************************************************************)
(* services/AuditLogger.js                                                 *)
(***************************************************************************)
\* password_resets_audit.userId is NOT NULL and references users(id); a
\* failed create is caught and logged
auditLog(audits, id, userId, outcome, meta, dbUp) ==
    LET row == [userId |-> IF userId = 0 THEN "unknown" ELSE userId,
                outcome |-> outcome, meta |-> meta]
    IN  IF dbUp /\ userId # 0 /\ users[userId] # Nil
        THEN Append(audits, row)
        ELSE audits

(***************************************************************************)
(* services/UsernameVerifier.js: the email filter                          *)
(***************************************************************************)
RECURSIVE addAllEmails(_, _)
addAllEmails(bits, emails) ==
    IF emails = {} THEN bits
    ELSE LET e == CHOOSE x \in emails : TRUE
         IN  addAllEmails(BloomAdd(bits, trim(toLowerCase(e))), emails \ {e})

\* isEmailInBloomFilter once the filter is initialised
emailMightExist(bits, email) == BloomMightExist(bits, trim(toLowerCase(email)))


(***************************************************************************)
(* Requests in progress                                                    *)
(***************************************************************************)

IdleSlot ==
    [kind |-> "none", pc |-> "idle", ip |-> 0, email |-> <<>>,
     registered |-> FALSE, bloomCheck |-> "unknown", userId |-> 0,
     tokenId |-> 0, token |-> 0, newPassword |-> "", tokenData |-> Nil,
     keys |-> {}, cur |-> 0, did |-> {}, audits |-> <<>>, mail |-> Nil,
     resp |-> Nil, metric |-> "", after |-> FALSE, faulted |-> FALSE,
     leftover |-> {}, gone |-> "unknown", username |-> <<>>, shape |-> "",
     name |-> ""]

\* history: what has become of a token id when a request for it starts
GoneReason(tokenId) ==
    CASE tokenId = NeverIssued -> "never"
      [] tokenId \in expired -> "expired"
      [] tokens[tokenId] # Nil -> "live"
      [] successes[tokenId] > 0 -> "consumed"
      [] OTHER -> "removed"

NoOutput == [kind |-> "none"]

Free(s) == slot[s].pc = "idle"

\* res.status(..).json(..): the request is over
Respond(r, response, status) ==
    [r EXCEPT !.pc = "done", !.resp = response, !.metric = status]

\* the handler's catch block answers
Fault(r, response) ==
    [r EXCEPT !.pc = "done", !.resp = response, !.metric = "error", !.faulted = TRUE]

\* a step of request s ends in r: either the request goes on, or it has
\* been answered, its slot is free again and out shows the finished request
Step(s, r) ==
    IF r.pc = "done"
    THEN /\ slot' = [slot EXCEPT ![s] = IdleSlot]
         /\ out' = r
    ELSE /\ slot' = [slot EXCEPT ![s] = r]
         /\ out' = NoOutput

Did(r, what) == [r EXCEPT !.did = @ \cup {what}]

\* enqueuePasswordResetEmail / enqueuePasswordChangedEmail: setImmediate
\* schedules the send and the function returns
enqueue(box, mail) == Append(box, [mail |-> mail, state |-> "scheduled"])

NotProto == <<bloomVars, rlTarget, rlPending, rlStats, rlAge, verifierVars,
              profileVars>>

(***************************************************************************)
(* POST /forgot-password                                                   *)
(***************************************************************************)
\* a faulty variant: the request goes on to the account lookup after a miss
afterBloomCheckIgnoresMiss(r, bloomCheck) ==
    [r EXCEPT !.bloomCheck = IF bloomCheck THEN "yes" ELSE "no", !.pc = "findUser"]

\* the membership answer is in: a miss ends the request after the delay
afterBloomCheck(r, bloomCheck) ==
    IF ~bloomCheck
    THEN [r EXCEPT !.bloomCheck = "no", !.pc = "delay", !.metric = "bloom_miss"]
    ELSE [r EXCEPT !.bloomCheck = "yes", !.pc = "findUser"]

\* isEmailInBloomFilter(normalizedEmail) up to its first suspension
enterBloomCheck(r) ==
    IF isEmailInitialized
    THEN afterBloomCheck(r, emailMightExist(emailBits, r.email))
    ELSE [r EXCEPT !.pc = "initFilter"]

\* the handler up to its first await: input validation
ForgotStart(s, ip, input) ==
    /\ Free(s)
    /\ LET normalizedEmail == trim(toLowerCase(input))
           fresh == [IdleSlot EXCEPT !.kind = "forgot", !.ip = ip]
       IN  IF input = NoEmail
           THEN /\ Step(s, Respond(fresh, ForgotMissingEmailResponse, "invalid_input"))
                /\ UNCHANGED nForgot
           ELSE IF ~emailRegexTest(normalizedEmail)
           THEN /\ Step(s, Respond(fresh, ForgotInvalidEmailResponse, "invalid_email"))
                /\ UNCHANGED nForgot
           ELSE /\ nForgot < MaxForgot
                /\ nForgot' = nForgot + 1
                /\ Step(s, [fresh EXCEPT !.pc = "ipLimit", !.email = normalizedEmail,
                              !.registered = (findUserByEmail(normalizedEmail) # 0)])
    /\ UNCHANGED <<users, tokens, emailBits, isEmailInitialized, nextTokenId,
                   resetsLeft, successes, counters>>
    /\ UNCHANGED <<expired, mailbox, NotProto>>

\* await checkIpRateLimit(clientIp), then on to the filter
ForgotIpLimit(s, storeUp) ==
    /\ slot[s].kind = "forgot" /\ slot[s].pc = "ipLimit"
    /\ LET r  == checkIpRateLimit(counters, slot[s].ip, storeUp)
           me == Did(slot[s], "ipLimiter")
       IN  /\ counters' = r.store
           /\ Step(s, IF r.limited
                      THEN [me EXCEPT !.pc = "delay", !.metric = "ip_rate_limited"]
                      ELSE enterBloomCheck(me))
    /\ UNCHANGED <<users, tokens, emailBits, isEmailInitialized, nextTokenId,
                   nForgot, resetsLeft, successes>>
    /\ UNCHANGED <<expired, mailbox, NotProto>>

\* initializeEmailFilter(): findMany returns, every address is added, the
\* flag is set, and isEmailInBloomFilter goes on to mightExist
ForgotInitFilter(s, dbUp) ==
    /\ slot[s].kind = "forgot" /\ slot[s].pc = "initFilter"
    /\ LET me == Did(slot[s], "findMany")
       IN  IF dbUp
           THEN /\ emailBits' = addAllEmails(emailBits, allEmails)
                /\ isEmailInitialized' = TRUE
                /\ Step(s, afterBloomCheck(me, emailMightExist(emailBits', me.email)))
           ELSE /\ Step(s, Fault(me, ForgotErrorResponse))
                /\ UNCHANGED <<emailBits, isEmailInitialized>>
    /\ UNCHANGED <<users, tokens, nextTokenId, nForgot, resetsLeft, successes,
                   counters>>
    /\ UNCHANGED <<expired, mailbox, NotProto>>

\* await prisma.user.findUnique({ where: { email: normalizedEmail } })
ForgotFindUser(s, dbUp) ==
    /\ slot[s].kind = "forgot" /\ slot[s].pc = "findUser"
    /\ LET me   == Did(slot[s], "findUnique")
           user == findUserByEmail(me.email)
       IN  Step(s, IF ~dbUp THEN Fault(me, ForgotErrorResponse)
                   ELSE IF user = 0
                   THEN [me EXCEPT !.pc = "audit", !.metric = "user_not_found"]
                   ELSE [me EXCEPT !.pc = "userLimit", !.userId = user])
    /\ UNCHANGED <<users, tokens, emailBits, isEmailInitialized, nextTokenId,
                   nForgot, resetsLeft, successes, counters>>
    /\ UNCHANGED <<expired, mailbox, NotProto>>

\* await checkUserRateLimit(user.id), then tokenId, rawToken and tokenHash
ForgotUserLimit(s, storeUp) ==
    /\ slot[s].kind = "forgot" /\ slot[s].pc = "userLimit"
    /\ LET r  == checkUserRateLimit(counters, slot[s].userId, storeUp)
           me == IF storeUp THEN Did(slot[s], "userLimiter")
                 ELSE Did(Did(slot[s], "userLimiter"), "limiterFailed")
       IN  /\ counters' = r.store
           /\ IF r.limited
              THEN /\ Step(s, [me EXCEPT !.pc = "audit", !.metric = "user_rate_limited"])
                   /\ UNCHANGED nextTokenId
              ELSE /\ Step(s, [me EXCEPT !.pc = "storeToken", !.tokenId = nextTokenId,
                                         !.token = rawTokenOf(nextTokenId)])
                   /\ nextTokenId' = nextTokenId + 1
    /\ UNCHANGED <<users, tokens, emailBits, isEmailInitialized, nForgot,
                   resetsLeft, successes>>
    /\ UNCHANGED <<expired, mailbox, NotProto>>

\* a faulty variant: the record keeps the secret itself
ForgotStoreTokenPlain(s, storeUp) ==
    /\ slot[s].kind = "forgot" /\ slot[s].pc = "storeToken"
    /\ LET me == slot[s]
       IN  IF storeUp
           THEN /\ tokens' = [tokens EXCEPT ![me.tokenId] =
                       [userId |-> me.userId, tokenHash |-> me.token,
                        email |-> me.email, ttl |-> TOKEN_TTL]]
                /\ Step(s, [Did(me, "setEx") EXCEPT !.pc = "audit", !.metric = "success",
                              !.mail = [email |-> me.email,
                                        name |-> users[me.userId].name,
                                        tokenId |-> me.tokenId,
                                        rawToken |-> me.token]])
                /\ mailbox' = enqueue(mailbox, [email |-> slot[s].email,
                                       name |-> users[slot[s].userId].name,
                                       tokenId |-> slot[s].tokenId,
                                       rawToken |-> slot[s].token])
           ELSE /\ Step(s, Fault(me, ForgotErrorResponse))
                /\ UNCHANGED <<tokens, mailbox>>
    /\ UNCHANGED <<users, emailBits, isEmailInitialized, nextTokenId, nForgot,
                   resetsLeft, successes, counters>>
    /\ UNCHANGED <<expired, NotProto>>

\* a faulty variant: the email is handed off before the record is stored
ForgotStoreTokenMailFirst(s, storeUp) ==
    /\ slot[s].kind = "forgot" /\ slot[s].pc = "storeToken"
    /\ LET me == [slot[s] EXCEPT
                     !.mail = [email |-> slot[s].email,
                               name |-> users[slot[s].userId].name,
                               tokenId |-> slot[s].tokenId,
                               rawToken |-> slot[s].token]]
       IN  IF storeUp
           THEN /\ tokens' = [tokens EXCEPT ![me.tokenId] =
                       [userId |-> me.userId, tokenHash |-> hmacHash(me.token),
                        email |-> me.email, ttl |-> TOKEN_TTL]]
                /\ Step(s, [Did(me, "setEx") EXCEPT !.pc = "audit", !.metric = "success"])
           ELSE /\ Step(s, Fault(me, ForgotErrorResponse))
                /\ UNCHANGED tokens
    /\ mailbox' = enqueue(mailbox, [email |-> slot[s].email,
                                name |-> users[slot[s].userId].name,
                                tokenId |-> slot[s].tokenId,
                                rawToken |-> slot[s].token])
    /\ UNCHANGED <<users, emailBits, isEmailInitialized, nextTokenId, nForgot,
                   resetsLeft, successes, counters>>
    /\ UNCHANGED <<expired, NotProto>>

\* await redisClient.setEx(key, TOKEN_TTL, tokenData), then the hand-off to
\* enqueuePasswordResetEmail (which only schedules the send)
ForgotStoreToken(s, storeUp) ==
    /\ slot[s].kind = "forgot" /\ slot[s].pc = "storeToken"
    /\ LET me == slot[s]
       IN  IF storeUp
           THEN /\ tokens' = [tokens EXCEPT ![me.tokenId] =
                       [userId |-> me.userId, tokenHash |-> hmacHash(me.token),
                        email |-> me.email, ttl |-> TOKEN_TTL]]
                /\ Step(s, [Did(me, "setEx") EXCEPT !.pc = "audit", !.metric = "success",
                              !.mail = [email |-> me.email,
                                        name |-> users[me.userId].name,
                                        tokenId |-> me.tokenId,
                                        rawToken |-> me.token]])
                /\ mailbox' = enqueue(mailbox, [email |-> slot[s].email,
                                       name |-> users[slot[s].userId].name,
                                       tokenId |-> slot[s].tokenId,
                                       rawToken |-> slot[s].token])
           ELSE /\ Step(s, Fault(me, ForgotErrorResponse))
                /\ UNCHANGED <<tokens, mailbox>>
    /\ UNCHANGED <<users, emailBits, isEmailInitialized, nextTokenId, nForgot,
                   resetsLeft, successes, counters>>
    /\ UNCHANGED <<expired, NotProto>>

ForgotOutcome(metric) ==
    CASE metric = "success" -> "requested"
      [] metric = "user_not_found" -> "user_not_found"
      [] OTHER -> "user_rate_limited"

\* await auditLog({...}); the issuing branch answers at once, the others
\* go on to the delay
ForgotAudit(s, dbUp) ==
    /\ slot[s].kind = "forgot" /\ slot[s].pc = "audit"
    /\ LET me   == slot[s]
           meta == IF me.metric = "success" THEN [tokenId |-> me.tokenId]
                   ELSE IF me.metric = "user_not_found" THEN [email |-> me.email]
                   ELSE [none |-> TRUE]
           done == [me EXCEPT
                       !.audits = auditLog(@, s, me.userId,
                                           ForgotOutcome(me.metric), meta, dbUp),
                       !.did = IF dbUp THEN @ ELSE @ \cup {"auditFailed"}]
       IN  Step(s, IF me.metric = "success"
                   THEN Respond(done, ForgotSuccessResponse, "success")
                   ELSE [done EXCEPT !.pc = "delay"])
    /\ UNCHANGED <<users, tokens, emailBits, isEmailInitialized, nextTokenId,
                   nForgot, resetsLeft, successes, counters>>
    /\ UNCHANGED <<expired, mailbox, NotProto>>

DelayedResponse(metric) ==
    CASE metric = "ip_rate_limited" -> ForgotIpLimitedResponse
      [] metric = "bloom_miss" -> ForgotBloomMissResponse
      [] metric = "user_not_found" -> ForgotUserNotFoundResponse
      [] OTHER -> ForgotUserLimitedResponse

\* a faulty variant: the promise of the delay is never resolved, the handler
\* stays at its await
ForgotDelayNeverResolves(s) ==
    /\ slot[s].kind = "forgot" /\ slot[s].pc = "delay"
    /\ UNCHANGED vars

\* await new Promise(resolve => setTimeout(resolve, 100 + random)), then
\* the generic answer
ForgotDelay(s) ==
    /\ slot[s].kind = "forgot" /\ slot[s].pc = "delay"
    /\ Step(s, Respond(Did(slot[s], "delay"), DelayedResponse(slot[s].metric),
                       slot[s].metric))
    /\ UNCHANGED <<users, tokens, emailBits, isEmailInitialized, nextTokenId,
                   nForgot, resetsLeft, successes, counters>>
    /\ UNCHANGED <<expired, mailbox, NotProto>>

(***************************************************************************)
(* POST /reset-password                                                    *)
(***************************************************************************)
ResetMissingFieldsResponse == [status |-> 400, message |-> "All fields are required"]
ResetInvalidFormatResponse == [status |-> 400, message |-> "Invalid token format"]
ResetWeakPasswordResponse ==
    [status |-> 400, message |-> "Password must be at least 8 characters long"]
ResetRateLimitedResponse ==
    [status |-> 429, message |-> "Too many attempts. Please request a new reset link."]
\* a faulty variant: a missing token is reported as such
ResetNotFoundResponseGone ==
    [status |-> 404, message |-> "Reset token not found."]
ResetNotFoundResponse ==
    [status |-> 400, message |-> "This reset link is invalid or has expired."]
ResetMismatchResponse == [status |-> 400, message |-> "Invalid reset token."]
ResetSuccessResponse ==
    [status |-> 200, message |-> "Password has been reset successfully."]
ResetErrorResponse ==
    [status |-> 500, message |-> "An error occurred. Please try again."]

\* the shapes a request body can have: well formed, or failing one of the
\* four validations in the order the handler applies them
ResetShapes == {"ok", "missing_field", "bad_token_id", "bad_token", "weak_password"}

\* a body whose token is a JSON number, the other fields well formed
ResetShapesWithNumber == ResetShapes \cup {"number_token"}

\* The four tests of the handler.  A token sent as a number is truthy, its
\* .length is undefined, so "token.length < 32" and "token.length > 256" are
\* both false, and test() converts it to its digits, which are all in the
\* character class: none of the tests rejects it.
ResetRejects(shape) ==
    shape \in {"missing_field", "bad_token_id", "bad_token", "weak_password"}

ResetValidation(shape) ==
    CASE shape = "missing_field" -> [response |-> ResetMissingFieldsResponse,
                                     status |-> "invalid_input"]
      [] shape = "bad_token_id" -> [response |-> ResetInvalidFormatResponse,
                                    status |-> "invalid_token_id"]
      [] shape = "bad_token" -> [response |-> ResetInvalidFormatResponse,
                                 status |-> "invalid_token_format"]
      [] OTHER -> [response |-> ResetWeakPasswordResponse,
                   status |-> "weak_password"]

\* the handler up to its first await: input validation
ResetStart(s, shape, tokenId, token, newPassword) ==
    /\ Free(s)
    /\ tokenId < nextTokenId
    /\ LET fresh == [IdleSlot EXCEPT !.kind = "reset", !.ip = 1, !.shape = shape]
       IN  IF ResetRejects(shape)
           THEN /\ Step(s, Respond(fresh, ResetValidation(shape).response,
                                   ResetValidation(shape).status))
                /\ UNCHANGED resetsLeft
           ELSE /\ resetsLeft > 0
                /\ resetsLeft' = resetsLeft - 1
                /\ Step(s, [fresh EXCEPT !.pc = "tokenLimit", !.tokenId = tokenId,
                              !.token = token, !.newPassword = newPassword,
                              !.after = (successes[tokenId] > 0),
                              !.gone = GoneReason(tokenId)])
    /\ UNCHANGED <<users, tokens, emailBits, isEmailInitialized, nextTokenId,
                   nForgot, successes, counters>>
    /\ UNCHANGED <<expired, mailbox, NotProto>>

\* await checkTokenRateLimit(tokenId)
ResetTokenLimit(s, storeUp) ==
    /\ slot[s].kind = "reset" /\ slot[s].pc = "tokenLimit"
    /\ LET r  == checkTokenRateLimit(counters, slot[s].tokenId, storeUp)
           me == IF storeUp THEN Did(slot[s], "tokenLimiter")
                 ELSE Did(Did(slot[s], "tokenLimiter"), "limiterFailed")
       IN  /\ counters' = r.store
           /\ Step(s, IF r.limited
                      THEN Respond(me, ResetRateLimitedResponse, "token_rate_limited")
                      ELSE [me EXCEPT !.pc = "lookup"])
    /\ UNCHANGED <<users, tokens, emailBits, isEmailInitialized, nextTokenId,
                   nForgot, resetsLeft, successes>>
    /\ UNCHANGED <<expired, mailbox, NotProto>>

\* a faulty variant: a wrong secret consumes the record
ResetLookupBurnsOnMismatch(s, storeUp) ==
    /\ slot[s].kind = "reset" /\ slot[s].pc = "lookup"
    /\ LET me           == Did(slot[s], "get")
           tokenDataStr == tokens[me.tokenId]
           mismatch     == /\ storeUp /\ tokenDataStr # Nil
                           /\ ~timingSafeEqual(hmacHash(me.token), tokenDataStr.tokenHash)
       IN  /\ Step(s, IF ~storeUp THEN Fault(me, ResetErrorResponse)
                      ELSE IF tokenDataStr = Nil
                      THEN Respond(me, ResetNotFoundResponse, "token_not_found")
                      ELSE IF mismatch
                      THEN Respond(me, ResetMismatchResponse, "token_mismatch")
                      ELSE [me EXCEPT !.pc = "updatePassword", !.tokenData = tokenDataStr])
           /\ tokens' = IF mismatch THEN [tokens EXCEPT ![me.tokenId] = Nil] ELSE tokens
    /\ UNCHANGED <<users, emailBits, isEmailInitialized, nextTokenId,
                   nForgot, resetsLeft, successes, counters>>
    /\ UNCHANGED <<expired, mailbox, NotProto>>

\* a faulty variant: the presented secret is not compared with the record
ResetLookupNoCompare(s, storeUp) ==
    /\ slot[s].kind = "reset" /\ slot[s].pc = "lookup"
    /\ LET me           == Did(slot[s], "get")
           tokenDataStr == tokens[me.tokenId]
       IN  Step(s, IF ~storeUp THEN Fault(me, ResetErrorResponse)
                   ELSE IF tokenDataStr = Nil
                   THEN Respond(me, ResetNotFoundResponse, "token_not_found")
                   ELSE [me EXCEPT !.pc = "updatePassword", !.tokenData = tokenDataStr])
    /\ UNCHANGED <<users, tokens, emailBits, isEmailInitialized, nextTokenId,
                   nForgot, resetsLeft, successes, counters>>
    /\ UNCHANGED <<expired, mailbox, NotProto>>

\* await redisClient.get(token key), JSON.parse, hmacHash and timingSafeEqual;
\* hmacHash raises when the token is not a string (Hmac.update)
ResetLookup(s, storeUp) ==
    /\ slot[s].kind = "reset" /\ slot[s].pc = "lookup"
    /\ LET me           == Did(slot[s], "get")
           tokenDataStr == tokens[me.tokenId]
       IN  Step(s, IF ~storeUp THEN Fault(me, ResetErrorResponse)
                   ELSE IF tokenDataStr = Nil
                   THEN Respond(me, ResetNotFoundResponse, "token_not_found")
                   ELSE IF me.shape = "number_token"
                   THEN Fault(me, ResetErrorResponse)
                   ELSE IF ~timingSafeEqual(hmacHash(me.token), tokenDataStr.tokenHash)
                   THEN Respond(me, ResetMismatchResponse, "token_mismatch")
                   ELSE [me EXCEPT !.pc = "updatePassword", !.tokenData = tokenDataStr])
    /\ UNCHANGED <<users, tokens, emailBits, isEmailInitialized, nextTokenId,
                   nForgot, resetsLeft, successes, counters>>
    /\ UNCHANGED <<expired, mailbox, NotProto>>

\* await hashPasswordArgon2(newPassword); await prisma.user.update(...),
\* which writes the password and updatedAt: new Date()
ResetUpdatePassword(s, dbUp) ==
    /\ slot[s].kind = "reset" /\ slot[s].pc = "updatePassword"
    /\ LET me == slot[s]
           id == me.tokenData.userId
       IN  IF dbUp /\ users[id] # Nil
           THEN /\ users' = [users EXCEPT ![id].password =
                                 hashPasswordArgon2(me.newPassword),
                                           ![id].updatedAt = @ + 1]
                /\ Step(s, [Did(me, "updatePassword") EXCEPT !.pc = "delToken"])
           ELSE /\ Step(s, Fault(me, ResetErrorResponse))
                /\ UNCHANGED users
    /\ UNCHANGED <<tokens, emailBits, isEmailInitialized, nextTokenId, nForgot,
                   resetsLeft, successes, counters>>
    /\ UNCHANGED <<expired, mailbox, NotProto>>

\* await redisClient.del(token key)
ResetDelToken(s, storeUp) ==
    /\ slot[s].kind = "reset" /\ slot[s].pc = "delToken"
    /\ LET me == slot[s]
       IN  IF storeUp
           THEN /\ tokens' = [tokens EXCEPT ![me.tokenId] = Nil]
                /\ Step(s, [Did(me, "delToken") EXCEPT !.pc = "keys"])
           ELSE /\ Step(s, Fault(me, ResetErrorResponse))
                /\ UNCHANGED tokens
    /\ UNCHANGED <<users, emailBits, isEmailInitialized, nextTokenId, nForgot,
                   resetsLeft, successes, counters>>
    /\ UNCHANGED <<expired, mailbox, NotProto>>

afterScan(r) ==
    IF r.keys = {} THEN [r EXCEPT !.pc = "delCounter", !.cur = 0]
    ELSE [r EXCEPT !.pc = "scan", !.cur = 0]

\* await redisClient.keys('password_reset:token:*'): the keys present now
ResetKeys(s, storeUp) ==
    /\ slot[s].kind = "reset" /\ slot[s].pc = "keys"
    /\ LET me == slot[s]
       IN  Step(s, IF storeUp
                   THEN afterScan([me EXCEPT !.keys = {t \in TokenIds : tokens[t] # Nil}])
                   ELSE Fault(me, ResetErrorResponse))
    /\ UNCHANGED <<users, tokens, emailBits, isEmailInitialized, nextTokenId,
                   nForgot, resetsLeft, successes, counters>>
    /\ UNCHANGED <<expired, mailbox, NotProto>>

\* the loop body: await redisClient.get(key), JSON.parse, the userId test
ResetScanGet(s, key, storeUp) ==
    /\ slot[s].kind = "reset" /\ slot[s].pc = "scan"
    /\ key \in slot[s].keys
    /\ LET me   == slot[s]
           data == tokens[key]
       IN  Step(s, IF ~storeUp THEN Fault(me, ResetErrorResponse)
                   ELSE IF data # Nil /\ data.userId = me.tokenData.userId
                   THEN [me EXCEPT !.pc = "scanDel", !.cur = key]
                   ELSE afterScan([me EXCEPT !.keys = @ \ {key}]))
    /\ UNCHANGED <<users, tokens, emailBits, isEmailInitialized, nextTokenId,
                   nForgot, resetsLeft, successes, counters>>
    /\ UNCHANGED <<expired, mailbox, NotProto>>

\* the loop body: await redisClient.del(key)
ResetScanDel(s, storeUp) ==
    /\ slot[s].kind = "reset" /\ slot[s].pc = "scanDel"
    /\ LET me == slot[s]
       IN  IF storeUp
           THEN /\ tokens' = [tokens EXCEPT ![me.cur] = Nil]
                /\ Step(s, afterScan([me EXCEPT !.keys = @ \ {me.cur}]))
           ELSE /\ Step(s, Fault(me, ResetErrorResponse))
                /\ UNCHANGED tokens
    /\ UNCHANGED <<users, emailBits, isEmailInitialized, nextTokenId, nForgot,
                   resetsLeft, successes, counters>>
    /\ UNCHANGED <<expired, mailbox, NotProto>>

\* a faulty variant: the caller's counter is cleared with the token's
ResetDelCounterAndCaller(s, storeUp) ==
    /\ slot[s].kind = "reset" /\ slot[s].pc = "delCounter"
    /\ LET me == slot[s]
       IN  IF storeUp
           THEN /\ counters' = [counters EXCEPT ![TokenRateKey(me.tokenId)] = Nil,
                                                ![IpKey(me.ip)] = Nil]
                /\ Step(s, [Did(me, "delCounter") EXCEPT !.pc = "audit",
                              !.mail = [email |-> me.tokenData.email, ip |-> me.ip]])
                /\ mailbox' = enqueue(mailbox, [email |-> me.tokenData.email,
                                                 ip |-> me.ip])
           ELSE /\ Step(s, Fault(me, ResetErrorResponse))
                /\ UNCHANGED <<counters, mailbox>>
    /\ UNCHANGED <<users, tokens, emailBits, isEmailInitialized, nextTokenId,
                   nForgot, resetsLeft, successes>>
    /\ UNCHANGED <<expired, NotProto>>

\* await redisClient.del(token rate key), then the hand-off to
\* enqueuePasswordChangedEmail (which only schedules the send)
ResetDelCounter(s, storeUp) ==
    /\ slot[s].kind = "reset" /\ slot[s].pc = "delCounter"
    /\ LET me == slot[s]
       IN  IF storeUp
           THEN /\ counters' = [counters EXCEPT ![TokenRateKey(me.tokenId)] = Nil]
                /\ Step(s, [Did(me, "delCounter") EXCEPT !.pc = "audit",
                              !.mail = [email |-> me.tokenData.email, ip |-> me.ip]])
                /\ mailbox' = enqueue(mailbox, [email |-> me.tokenData.email,
                                                 ip |-> me.ip])
           ELSE /\ Step(s, Fault(me, ResetErrorResponse))
                /\ UNCHANGED <<counters, mailbox>>
    /\ UNCHANGED <<users, tokens, emailBits, isEmailInitialized, nextTokenId,
                   nForgot, resetsLeft, successes>>
    /\ UNCHANGED <<expired, NotProto>>

\* a faulty variant: the error of a failed audit write reaches the handler
ResetAuditRaises(s, dbUp) ==
    /\ slot[s].kind = "reset" /\ slot[s].pc = "audit"
    /\ LET me   == slot[s]
           id   == me.tokenData.userId
           done == [me EXCEPT
                       !.audits = auditLog(@, s, id, "reset",
                                           [tokenId |-> me.tokenId], dbUp),
                       !.did = IF dbUp THEN @ ELSE @ \cup {"auditFailed"},
                       !.leftover = {t \in TokenIds \ {me.tokenId} :
                                        tokens[t] # Nil /\ tokens[t].userId = id}]
       IN  /\ Step(s, IF dbUp THEN Respond(done, ResetSuccessResponse, "success")
                      ELSE Fault(done, ResetErrorResponse))
           /\ successes' = [successes EXCEPT ![me.tokenId] = @ + 1]
    /\ UNCHANGED <<users, tokens, emailBits, isEmailInitialized, nextTokenId,
                   nForgot, resetsLeft, counters>>
    /\ UNCHANGED <<expired, mailbox, NotProto>>

\* await auditLog({... outcome: 'reset' ...}), then the success answer
ResetAudit(s, dbUp) ==
    /\ slot[s].kind = "reset" /\ slot[s].pc = "audit"
    /\ LET me   == slot[s]
           id   == me.tokenData.userId
           done == [me EXCEPT
                       !.audits = auditLog(@, s, id, "reset",
                                           [tokenId |-> me.tokenId], dbUp),
                       !.did = IF dbUp THEN @ ELSE @ \cup {"auditFailed"},
                       !.leftover = {t \in TokenIds \ {me.tokenId} :
                                        tokens[t] # Nil /\ tokens[t].userId = id}]
       IN  /\ Step(s, Respond(done, ResetSuccessResponse, "success"))
           /\ successes' = [successes EXCEPT ![me.tokenId] = @ + 1]
    /\ UNCHANGED <<users, tokens, emailBits, isEmailInitialized, nextTokenId,
                   nForgot, resetsLeft, counters>>
    /\ UNCHANGED <<expired, mailbox, NotProto>>

(***************************************************************************)
(* GET /check-reset-token/:tokenId                                         *)
(***************************************************************************)
CheckBadFormatResponse ==
    [status |-> 200, valid |-> FALSE, message |-> "Invalid token format"]
CheckNotFoundResponse ==
    [status |-> 200, valid |-> FALSE,
     message |-> "This reset link has expired or is invalid"]
CheckErrorResponse ==
    [status |-> 200, valid |-> FALSE, message |-> "Unable to verify token"]
CheckValidResponse(ttl) ==
    [status |-> 200, valid |-> TRUE, expiresIn |-> ttl,
     message |-> <<"This link will expire in", ttl \div 60, "minutes">>]

\* redisClient.ttl(key): -2 when the key does not exist
redisTtl(key) == IF tokens[key] = Nil THEN -2 ELSE tokens[key].ttl

CheckStart(s, wellFormed, tokenId) ==
    /\ Free(s)
    /\ tokenId < nextTokenId
    /\ LET fresh == [IdleSlot EXCEPT !.kind = "check"]
       IN  Step(s, IF wellFormed
                   THEN [fresh EXCEPT !.pc = "checkGet", !.tokenId = tokenId,
                                      !.after = (successes[tokenId] > 0),
                                      !.gone = GoneReason(tokenId)]
                   ELSE Respond([fresh EXCEPT !.gone = "malformed"],
                                CheckBadFormatResponse, "bad_format"))
    /\ UNCHANGED <<users, tokens, emailBits, isEmailInitialized, nextTokenId,
                   nForgot, resetsLeft, successes, counters>>
    /\ UNCHANGED <<expired, mailbox, NotProto>>

\* await redisClient.get(token key)
CheckGet(s, storeUp) ==
    /\ slot[s].kind = "check" /\ slot[s].pc = "checkGet"
    /\ LET me == Did(slot[s], "get")
       IN  Step(s, IF ~storeUp THEN Fault(me, CheckErrorResponse)
                   ELSE IF tokens[me.tokenId] = Nil
                   THEN Respond(me, CheckNotFoundResponse, "not_found")
                   ELSE [me EXCEPT !.pc = "checkTtl"])
    /\ UNCHANGED <<users, tokens, emailBits, isEmailInitialized, nextTokenId,
                   nForgot, resetsLeft, successes, counters>>
    /\ UNCHANGED <<expired, mailbox, NotProto>>

\* await redisClient.ttl(token key)
CheckTtl(s, storeUp) ==
    /\ slot[s].kind = "check" /\ slot[s].pc = "checkTtl"
    /\ LET me == Did(slot[s], "ttl")
       IN  Step(s, IF ~storeUp THEN Fault(me, CheckErrorResponse)
                   ELSE Respond(me, CheckValidResponse(redisTtl(me.tokenId)), "valid"))
    /\ UNCHANGED <<users, tokens, emailBits, isEmailInitialized, nextTokenId,
                   nForgot, resetsLeft, successes, counters>>
    /\ UNCHANGED <<expired, mailbox, NotProto>>

(***************************************************************************)
(* POST /signup-otp-verification (routes/user.js): the account is created  *)
(* and only the username is added to a filter                              *)
(***************************************************************************)
SignupOtpVerification(u, email) ==
    /\ users[u] = Nil
    /\ findUserByEmail(email) = 0
    /\ users' = [users EXCEPT ![u] =
           [email |-> email, password |-> <<"bcrypt", "p0">>, name |-> "n",
            updatedAt |-> 0]]
    /\ out' = NoOutput
    /\ UNCHANGED <<tokens, emailBits, isEmailInitialized, slot, nextTokenId,
                   nForgot, resetsLeft, successes, counters>>
    /\ UNCHANGED <<expired, mailbox, NotProto>>

(***************************************************************************)
(* services/UsernameVerifier.js: the username filter, its lazy build,      *)
(* refresh(), and the signup that adds a username (routes/user.js)         *)
(***************************************************************************)
MaxVerifierCalls == 4   \* verifier calls and signups in one run

Usernames == {<<"a">>, <<"b">>}

usernamesInDb == {users[u].username : u \in {v \in UserIds : users[v] # Nil}}

\* what the verifier and the signup leave alone
NotVerifier == <<bfAdded, bfLast, rlVars, tokens, emailBits, isEmailInitialized,
                 nextTokenId, nForgot, resetsLeft, successes, expired, mailbox,
                 profileVars>>

RECURSIVE addAllUsernames(_, _)
addAllUsernames(bits, names) ==
    IF names = {} THEN bits
    ELSE LET n == CHOOSE x \in names : TRUE
         IN  addAllUsernames(BloomAdd(bits, n), names \ {n})

\* the username has an account whose signup has run to its end
SignedUp(username) ==
    /\ username \in usernamesInDb
    /\ \A s \in Slots : ~(slot[s].kind = "signup" /\ slot[s].username = username)

AvailableResponse == [available |-> TRUE, needsDbCheck |-> FALSE]

\* bloomFilter.mightExist(username) and what follows without an await
afterMightExist(r, bits) ==
    IF BloomMightExist(bits, r.username)
    THEN [r EXCEPT !.pc = "findUnique", !.bloomCheck = "hit"]
    ELSE Respond([r EXCEPT !.bloomCheck = "miss"], AvailableResponse, "available")

\* refresh(): clear(), the flag goes down, initialize() is entered and
\* waits for findMany
VerifierRefresh(s) ==
    /\ Free(s)
    /\ verifierCallsLeft > 0
    /\ verifierCallsLeft' = verifierCallsLeft - 1
    /\ bitArray' = EmptyBitArray(BloomSize)
    /\ elementCount' = 0
    /\ isInitialized' = FALSE
    /\ Step(s, [IdleSlot EXCEPT !.kind = "refresh", !.pc = "findMany"])
    /\ UNCHANGED users
    /\ UNCHANGED NotVerifier

\* isUsernameTaken(username) up to its first await
isUsernameTaken(s, username) ==
    /\ Free(s)
    /\ verifierCallsLeft > 0
    /\ verifierCallsLeft' = verifierCallsLeft - 1
    /\ LET fresh == [IdleSlot EXCEPT !.kind = "lookup", !.username = username,
                                     !.registered = SignedUp(username)]
       IN  Step(s, IF ~isInitialized THEN [fresh EXCEPT !.pc = "findMany"]
                   ELSE afterMightExist(fresh, bitArray))
    /\ UNCHANGED <<users, bitArray, elementCount, isInitialized>>
    /\ UNCHANGED NotVerifier

\* initialize(): the database runs findMany; the rows are on their way back
VerifierFindMany(s, dbUp) ==
    /\ slot[s].kind \in {"refresh", "lookup"} /\ slot[s].pc = "findMany"
    /\ LET me == Did(slot[s], "findMany")
       IN  Step(s, IF dbUp THEN [me EXCEPT !.pc = "addAll", !.keys = usernamesInDb]
                   ELSE Fault(me, [error |-> TRUE]))
    /\ UNCHANGED <<users, bitArray, elementCount, isInitialized, verifierCallsLeft>>
    /\ UNCHANGED NotVerifier

\* initialize() after findMany: every row is added, the flag goes up;
\* refresh() returns the stats, isUsernameTaken goes on to mightExist
initialize(s) ==
    /\ slot[s].kind \in {"refresh", "lookup"} /\ slot[s].pc = "addAll"
    /\ bitArray' = addAllUsernames(bitArray, slot[s].keys)
    /\ elementCount' = elementCount + Cardinality(slot[s].keys)
    /\ isInitialized' = TRUE
    /\ LET me == Did(slot[s], "addAll")
       IN  Step(s, IF me.kind = "refresh"
                   THEN Respond(me, [elementCount |-> elementCount'], "refreshed")
                   ELSE afterMightExist(me, bitArray'))
    /\ UNCHANGED <<users, verifierCallsLeft>>
    /\ UNCHANGED NotVerifier

\* await prisma.user.findUnique({ where: { username: normalised } })
VerifierFindUnique(s, dbUp) ==
    /\ slot[s].kind = "lookup" /\ slot[s].pc = "findUnique"
    /\ LET me   == Did(slot[s], "findUnique")
           user == trim(toLowerCase(me.username)) \in usernamesInDb
       IN  Step(s, IF dbUp
                   THEN Respond(me, [available |-> ~user, needsDbCheck |-> TRUE],
                                IF user THEN "taken" ELSE "available")
                   ELSE Fault(me, [error |-> TRUE]))
    /\ UNCHANGED <<users, bitArray, elementCount, isInitialized, verifierCallsLeft>>
    /\ UNCHANGED NotVerifier

\* signup-otp-verification: await prisma.user.create({...})
SignupCreateUser(s, u, username) ==
    /\ Free(s)
    /\ verifierCallsLeft > 0
    /\ verifierCallsLeft' = verifierCallsLeft - 1
    /\ users[u] = Nil
    /\ username \notin usernamesInDb
    /\ users' = [users EXCEPT ![u] =
           [email |-> EmailB, password |-> <<"bcrypt", "p0">>, name |-> "n",
            username |-> username, updatedAt |-> 0]]
    /\ Step(s, [IdleSlot EXCEPT !.kind = "signup", !.pc = "addUsername",
                                !.username = username, !.userId = u])
    /\ UNCHANGED <<bitArray, elementCount, isInitialized>>
    /\ UNCHANGED NotVerifier

\* addUsername(userData.username), then the 201 answer
addUsername(s) ==
    /\ slot[s].kind = "signup" /\ slot[s].pc = "addUsername"
    /\ bitArray' = BloomAdd(bitArray, slot[s].username)
    /\ elementCount' = elementCount + 1
    /\ Step(s, Respond(Did(slot[s], "addUsername"), [status |-> 201], "signed_up"))
    /\ UNCHANGED <<users, isInitialized, verifierCallsLeft>>
    /\ UNCHANGED NotVerifier

(***************************************************************************)
(* services/EmailQueue.js: the callback that setImmediate runs             *)
(***************************************************************************)
\* a faulty variant: a failed send withdraws the token record it was about
SendMailUndoesOnFailure(i, ok) ==
    /\ i \in DOMAIN mailbox
    /\ mailbox[i].state = "scheduled"
    /\ mailbox' = [mailbox EXCEPT ![i].state = IF ok THEN "sent" ELSE "failed"]
    /\ tokens' = IF ~ok /\ "tokenId" \in DOMAIN mailbox[i].mail
                 THEN [tokens EXCEPT ![mailbox[i].mail.tokenId] = Nil]
                 ELSE tokens
    /\ out' = NoOutput
    /\ UNCHANGED <<users, emailBits, isEmailInitialized, slot, nextTokenId,
                   nForgot, resetsLeft, successes, counters>>
    /\ UNCHANGED <<expired, NotProto>>

\* try { await transporter.sendMail(mailOptions) } catch (error) { log }
SendMail(i, ok) ==
    /\ i \in DOMAIN mailbox
    /\ mailbox[i].state = "scheduled"
    /\ mailbox' = [mailbox EXCEPT ![i].state = IF ok THEN "sent" ELSE "failed"]
    /\ out' = NoOutput
    /\ UNCHANGED <<users, tokens, emailBits, isEmailInitialized, slot, nextTokenId,
                   nForgot, resetsLeft, successes, counters>>
    /\ UNCHANGED <<expired, NotProto>>

(***************************************************************************)
(* GET /profile, PUT /profile and POST /profile/confirm-email for the      *)
(* signed-in account 1.  The express-rate-limit middlewares allow ten      *)
(* requests per window, more than a run sends.                             *)
(***************************************************************************)
MaxProfileCalls == 3    \* profile and confirm-email requests in one run

NewName == "m"
\* what a caller may send as req.body.name ("": the field is absent)
NameInputs == {NewName, ""}

\* stands for sha256(token) as a hex string
hashToken(token) == (token * 5 + 1) % 7

timingSafeCompare(a, b) == a = b

\* the fields of a user row that the model keeps, as pickPublicFields
\* returns them
pickPublicFields(id, user) ==
    [id |-> id, name |-> user.name, email |-> user.email,
     updatedAt |-> user.updatedAt]

\* the row POST /profile/change-email created for account 1
PendingEmailChange ==
    [id |-> 1, userId |-> 1, newEmail |-> EmailC, tokenHash |-> hashToken(1),
     used |-> FALSE, expired |-> FALSE]

NotProfile == <<bloomVars, rlVars, verifierVars, tokens, emailBits,
                isEmailInitialized, nextTokenId, nForgot, resetsLeft, successes,
                expired, mailbox>>

ProfileStart(s, r) ==
    /\ Free(s)
    /\ profileCallsLeft > 0
    /\ profileCallsLeft' = profileCallsLeft - 1
    /\ Step(s, r)

\* the handler up to its first await
ConfirmStart(s, hasFields, id, token) ==
    /\ LET fresh == [IdleSlot EXCEPT !.kind = "confirm", !.tokenId = id,
                                     !.token = token,
                                     !.after = (emailChange # Nil /\ emailChange.used)]
       IN  ProfileStart(s, IF hasFields THEN [fresh EXCEPT !.pc = "findRequest"]
                           ELSE Respond(fresh,
                                    [status |-> 400,
                                     message |-> "Missing token or request ID"],
                                    "missing_field"))
    /\ UNCHANGED <<users, emailChange, cache>>
    /\ UNCHANGED NotProfile

\* await prisma.emailChange.findUnique(...), then the used, expiry and
\* token tests
ConfirmFindRequest(s, dbUp) ==
    /\ slot[s].kind = "confirm" /\ slot[s].pc = "findRequest"
    /\ LET me  == Did(slot[s], "findRequest")
           row == IF emailChange # Nil /\ emailChange.id = me.tokenId
                  THEN emailChange ELSE Nil
       IN  Step(s, IF ~dbUp
                   THEN Fault(me, [status |-> 500, message |-> "Internal server error"])
                   ELSE IF row = Nil
                   THEN Respond(me, [status |-> 400,
                                     message |-> "Invalid or expired verification request"],
                                "not_found")
                   ELSE IF row.used
                   THEN Respond(me, [status |-> 400,
                                     message |-> "This verification link has already been used"],
                                "already_used")
                   ELSE IF row.expired
                   THEN Respond(me, [status |-> 400,
                                     message |-> "Verification link has expired. Please request a new one."],
                                "expired")
                   ELSE IF ~timingSafeCompare(hashToken(me.token), row.tokenHash)
                   THEN Respond(me, [status |-> 400,
                                     message |-> "Invalid verification token"],
                                "token_mismatch")
                   ELSE [me EXCEPT !.pc = "findTaken", !.tokenData = row,
                                   !.userId = row.userId,
                                   !.email = users[row.userId].email])
    /\ UNCHANGED <<users, emailChange, cache, profileCallsLeft>>
    /\ UNCHANGED NotProfile

emailTakenByOther(email, userId) ==
    \E u \in UserIds \ {userId} : users[u] # Nil /\ users[u].email = email

\* await prisma.user.findFirst({ email: newEmail, NOT: { id: userId } })
ConfirmFindTaken(s, dbUp) ==
    /\ slot[s].kind = "confirm" /\ slot[s].pc = "findTaken"
    /\ LET me == Did(slot[s], "findTaken")
       IN  Step(s, IF ~dbUp
                   THEN Fault(me, [status |-> 500, message |-> "Internal server error"])
                   ELSE IF emailTakenByOther(me.tokenData.newEmail, me.userId)
                   THEN Respond(me, [status |-> 409,
                                     message |-> "Email address is no longer available"],
                                "email_taken")
                   ELSE [me EXCEPT !.pc = "transaction"])
    /\ UNCHANGED <<users, emailChange, cache, profileCallsLeft>>
    /\ UNCHANGED NotProfile

\* await prisma.$transaction([user.update(email, updatedAt),
\* emailChange.update(used: true)]): both writes or, when the database or
\* the unique index on the address rejects them, neither
ConfirmTransaction(s, dbUp) ==
    /\ slot[s].kind = "confirm" /\ slot[s].pc = "transaction"
    /\ LET me == Did(slot[s], "transaction")
       IN  IF dbUp /\ ~emailTakenByOther(me.tokenData.newEmail, me.userId)
           THEN /\ users' = [users EXCEPT ![me.userId].email = me.tokenData.newEmail,
                                           ![me.userId].updatedAt = @ + 1]
                /\ emailChange' = [emailChange EXCEPT !.used = TRUE]
                /\ Step(s, [me EXCEPT !.pc = "delCache",
                              !.tokenData = pickPublicFields(me.userId, users'[me.userId])])
           ELSE /\ Step(s, Fault(me, [status |-> 500,
                                      message |-> "Internal server error"]))
                /\ UNCHANGED <<users, emailChange>>
    /\ UNCHANGED <<cache, profileCallsLeft>>
    /\ UNCHANGED NotProfile

\* try { await redisClient.del(cacheKey) } catch { log }
ConfirmDelCache(s, storeUp) ==
    /\ slot[s].kind = "confirm" /\ slot[s].pc = "delCache"
    /\ cache' = IF storeUp THEN [cache EXCEPT ![slot[s].userId] = Nil] ELSE cache
    /\ Step(s, [slot[s] EXCEPT !.pc = "notify"])
    /\ UNCHANGED <<users, emailChange, profileCallsLeft>>
    /\ UNCHANGED NotProfile

\* try { await sendEmailChangeNotification(...) } catch { log }, then the
\* success answer
ConfirmNotify(s, sent) ==
    /\ slot[s].kind = "confirm" /\ slot[s].pc = "notify"
    /\ Step(s, Respond([slot[s] EXCEPT !.mail = [email |-> slot[s].email,
                                                   sent |-> sent]],
                       [status |-> 200,
                        message |-> "Email address updated successfully",
                        data |-> slot[s].tokenData],
                       "success"))
    /\ UNCHANGED <<users, emailChange, cache, profileCallsLeft>>
    /\ UNCHANGED NotProfile

\* the row's expiresAt passes
EmailChangeExpires ==
    /\ emailChange # Nil
    /\ ~emailChange.expired
    /\ emailChange' = [emailChange EXCEPT !.expired = TRUE]
    /\ out' = NoOutput
    /\ UNCHANGED <<users, slot, cache, profileCallsLeft>>
    /\ UNCHANGED NotProfile

\* GET /profile up to its first await
GetProfileStart(s) ==
    /\ ProfileStart(s, [IdleSlot EXCEPT !.kind = "get", !.pc = "getCache",
                                        !.userId = 1])
    /\ UNCHANGED <<users, emailChange, cache>>
    /\ UNCHANGED NotProfile

\* await redisClient.get(cacheKey): a hit is answered from the cache
GetProfileCache(s, storeUp) ==
    /\ slot[s].kind = "get" /\ slot[s].pc = "getCache"
    /\ LET me == Did(slot[s], "getCache")
       IN  Step(s, IF ~storeUp
                   THEN Fault(me, [status |-> 500, message |-> "Internal server error"])
                   ELSE IF cache[me.userId] # Nil
                   THEN Respond(me, [status |-> 200, data |-> cache[me.userId],
                                     message |-> "Profile retrieved from cache"],
                                "cache_hit")
                   ELSE [me EXCEPT !.pc = "getFind"])
    /\ UNCHANGED <<users, emailChange, cache, profileCallsLeft>>
    /\ UNCHANGED NotProfile

\* await prisma.user.findUnique(...), pickPublicFields
GetProfileFind(s, dbUp) ==
    /\ slot[s].kind = "get" /\ slot[s].pc = "getFind"
    /\ LET me == Did(slot[s], "findUnique")
       IN  Step(s, IF ~dbUp
                   THEN Fault(me, [status |-> 500, message |-> "Internal server error"])
                   ELSE IF users[me.userId] = Nil
                   THEN Respond(me, [status |-> 404, message |-> "User not found"],
                                "user_not_found")
                   ELSE [me EXCEPT !.pc = "getSet",
                            !.tokenData = pickPublicFields(me.userId, users[me.userId])])
    /\ UNCHANGED <<users, emailChange, cache, profileCallsLeft>>
    /\ UNCHANGED NotProfile

\* await redisClient.setEx(cacheKey, PROFILE_CACHE_TTL, ...), then the answer
GetProfileSet(s, storeUp) ==
    /\ slot[s].kind = "get" /\ slot[s].pc = "getSet"
    /\ LET me == Did(slot[s], "setEx")
       IN  IF storeUp
           THEN /\ cache' = [cache EXCEPT ![me.userId] = me.tokenData]
                /\ Step(s, Respond(me, [status |-> 200, data |-> me.tokenData,
                                        message |-> "Profile retrieved"],
                                   "cache_miss"))
           ELSE /\ Step(s, Fault(me, [status |-> 500,
                                      message |-> "Internal server error"]))
                /\ UNCHANGED cache
    /\ UNCHANGED <<users, emailChange, profileCallsLeft>>
    /\ UNCHANGED NotProfile

\* PUT /profile up to its first await
PutProfileStart(s, name) ==
    /\ ProfileStart(s, [IdleSlot EXCEPT !.kind = "put", !.pc = "putFind",
                                        !.userId = 1, !.name = name])
    /\ UNCHANGED <<users, emailChange, cache>>
    /\ UNCHANGED NotProfile

\* await prisma.user.findUnique(...), then the payload is built and tested
PutProfileFind(s, dbUp) ==
    /\ slot[s].kind = "put" /\ slot[s].pc = "putFind"
    /\ LET me == Did(slot[s], "findUnique")
       IN  Step(s, IF ~dbUp
                   THEN Fault(me, [status |-> 500, message |-> "Internal server error"])
                   ELSE IF users[me.userId] = Nil
                   THEN Respond(me, [status |-> 404, message |-> "User not found"],
                                "user_not_found")
                   ELSE IF me.name = ""
                   THEN Respond(me, [status |-> 400,
                                     message |-> "No fields provided to update"],
                                "no_fields")
                   ELSE [me EXCEPT !.pc = "putUpdate"])
    /\ UNCHANGED <<users, emailChange, cache, profileCallsLeft>>
    /\ UNCHANGED NotProfile

\* await prisma.user.update({ data: { ...updatePayload, updatedAt } })
PutProfileUpdate(s, dbUp) ==
    /\ slot[s].kind = "put" /\ slot[s].pc = "putUpdate"
    /\ LET me == Did(slot[s], "update")
       IN  IF dbUp
           THEN /\ users' = [users EXCEPT ![me.userId].name = me.name,
                                           ![me.userId].updatedAt = @ + 1]
                /\ Step(s, [me EXCEPT !.pc = "putDel",
                              !.tokenData = pickPublicFields(me.userId, users'[me.userId])])
           ELSE /\ Step(s, Fault(me, [status |-> 500,
                                      message |-> "Internal server error"]))
                /\ UNCHANGED users
    /\ UNCHANGED <<emailChange, cache, profileCallsLeft>>
    /\ UNCHANGED NotProfile

PutProfileResponse(r) ==
    Respond(r, [status |-> 200, data |-> r.tokenData,
                message |-> "Profile updated successfully"], "success")

\* try { await redisClient.del(cacheKey); ... } catch { log }
PutProfileDelCache(s, storeUp) ==
    /\ slot[s].kind = "put" /\ slot[s].pc = "putDel"
    /\ IF storeUp
       THEN /\ cache' = [cache EXCEPT ![slot[s].userId] = Nil]
            /\ Step(s, [slot[s] EXCEPT !.pc = "putSet"])
       ELSE /\ Step(s, PutProfileResponse(slot[s]))
            /\ UNCHANGED cache
    /\ UNCHANGED <<users, emailChange, profileCallsLeft>>
    /\ UNCHANGED NotProfile

\* try { ...; await redisClient.setEx(cacheKey, ...) } catch { log }, then
\* the answer
PutProfileSetCache(s, storeUp) ==
    /\ slot[s].kind = "put" /\ slot[s].pc = "putSet"
    /\ cache' = IF storeUp THEN [cache EXCEPT ![slot[s].userId] = slot[s].tokenData]
                ELSE cache
    /\ Step(s, PutProfileResponse(slot[s]))
    /\ UNCHANGED <<users, emailChange, profileCallsLeft>>
    /\ UNCHANGED NotProfile

\* Redis removes the cached profile when PROFILE_CACHE_TTL has passed
ProfileCacheExpires(u) ==
    /\ cache[u] # Nil
    /\ cache' = [cache EXCEPT ![u] = Nil]
    /\ out' = NoOutput
    /\ UNCHANGED <<users, slot, emailChange, profileCallsLeft>>
    /\ UNCHANGED NotProfile

(***************************************************************************)
(* Redis expiry                                                            *)
(***************************************************************************)
\* a faulty variant: the TTL passes and the record stays readable
ExpireTokenKeepsRecord(t) ==
    /\ tokens[t] # Nil
    /\ t \notin expired
    /\ expired' = expired \cup {t}
    /\ out' = NoOutput
    /\ UNCHANGED <<users, tokens, emailBits, isEmailInitialized, slot, nextTokenId,
                   nForgot, resetsLeft, successes, counters, mailbox>>
    /\ UNCHANGED NotProto

ExpireToken(t) ==
    /\ tokens[t] # Nil
    /\ tokens' = [tokens EXCEPT ![t] = Nil]
    /\ expired' = expired \cup {t}
    /\ out' = NoOutput
    /\ UNCHANGED <<users, emailBits, isEmailInitialized, slot, nextTokenId,
                   nForgot, resetsLeft, successes, counters, mailbox>>
    /\ UNCHANGED NotProto

(***************************************************************************)
(* Initial state: the server process has just started (the filter is not   *)
(* built), while Redis and the database hold what earlier traffic left:    *)
(* account 1, one live token for it, and rate-limit counters that earlier  *)
(* requests of the same windows have brought close to their limits, or     *)
(* one of them up to its limit.  The behaviours stay within those windows. *)
(***************************************************************************)
CountersAfter(ip, user, token) ==
    [k \in ProtoKeys |->
        CASE k = IpKey(1) -> [value |-> ip, expire |-> IpWindow]
          [] k = UserKey(1) -> [value |-> user, expire |-> UserWindow]
          [] k = TokenRateKey(1) -> [value |-> token, expire |-> TokenWindow]
          [] OTHER -> Nil]

\* the token forgot-password stored for account 1 under id t
IssuedToken(t) ==
    [userId |-> 1, tokenHash |-> hmacHash(rawTokenOf(t)), email |-> EmailA,
     ttl |-> TOKEN_TTL]

ProtoInit(issued, budget, built) ==
    /\ users = [u \in UserIds |->
           IF u = 1 THEN [email |-> EmailA, password |-> <<"bcrypt", "p0">>,
                          name |-> "n", updatedAt |-> 0]
           ELSE Nil]
    /\ tokens = [t \in TokenIds |-> IF t \in issued THEN IssuedToken(t) ELSE Nil]
    /\ emailBits = IF built THEN addAllEmails(EmptyBitArray(BloomSize), {EmailA})
                   ELSE EmptyBitArray(BloomSize)
    /\ isEmailInitialized = built
    /\ slot = [s \in Slots |-> IdleSlot]
    /\ out = NoOutput
    /\ nextTokenId = Cardinality(issued) + 1
    /\ nForgot = 0
    /\ resetsLeft = budget
    /\ successes = [t \in TokenIds |-> 0]
    /\ expired = {}
    /\ mailbox = <<>>

\* one token is out; a forgot-password request runs next to reset-password
\* and check-reset-token requests.  Either the process has just started, or
\* an earlier request has built the email filter from the accounts of then.
Init ==
    \/ /\ ProtoInit({1}, MaxRedeem, FALSE)
       /\ counters \in {CountersAfter(IpLimit - 1, UserLimit - 1, TokenLimit - 2),
                        CountersAfter(IpLimit, UserLimit - 1, TokenLimit - 2),
                        CountersAfter(IpLimit - 1, UserLimit, TokenLimit - 2),
                        CountersAfter(IpLimit - 1, UserLimit - 1, TokenLimit)}
    \/ /\ ProtoInit({1}, MaxRedeem, TRUE)
       /\ counters = CountersAfter(IpLimit - 1, UserLimit - 1, TokenLimit - 2)

\* two tokens of account 1 are out; reset-password requests race
RaceInit ==
    /\ ProtoInit({1, 2}, MaxReset, FALSE)
    /\ counters = CountersAfter(IpLimit - 1, UserLimit - 1, TokenLimit - 2)

\* two tokens of account 1 are out and the window of token 1 is fresh; one
\* caller sends reset-password and check-reset-token requests in a row
ReplayInit ==
    /\ ProtoInit({1, 2}, MaxReplay, FALSE)
    /\ counters = [CountersAfter(IpLimit - 1, UserLimit - 1, 0)
                      EXCEPT ![TokenRateKey(1)] = Nil]

\* two tokens of account 1 are out; one caller sends requests for token 1,
\* whose record may expire, and for an id that was never issued
LookupInit ==
    /\ ProtoInit({1, 2}, MaxLookups, FALSE)
    /\ counters = [CountersAfter(IpLimit - 1, UserLimit - 1, TokenLimit - 2)
                      EXCEPT ![TokenRateKey(NeverIssued)] =
                          [value |-> TokenLimit - 1, expire |-> TokenWindow]]

ResetSteps ==
    \/ \E s \in Slots, storeUp \in BOOLEAN : ResetTokenLimit(s, storeUp)
    \/ \E s \in Slots, storeUp \in BOOLEAN : ResetLookup(s, storeUp)
    \/ \E s \in Slots, dbUp \in BOOLEAN : ResetUpdatePassword(s, dbUp)
    \/ \E s \in Slots, storeUp \in BOOLEAN : ResetDelToken(s, storeUp)
    \/ \E s \in Slots, storeUp \in BOOLEAN : ResetKeys(s, storeUp)
    \/ \E s \in Slots, key \in TokenIds, storeUp \in BOOLEAN :
            ResetScanGet(s, key, storeUp)
    \/ \E s \in Slots, storeUp \in BOOLEAN : ResetScanDel(s, storeUp)
    \/ \E s \in Slots, storeUp \in BOOLEAN : ResetDelCounter(s, storeUp)
    \/ \E s \in Slots, dbUp \in BOOLEAN : ResetAudit(s, dbUp)

CheckSteps ==
    \/ \E s \in Slots, storeUp \in BOOLEAN : CheckGet(s, storeUp)
    \/ \E s \in Slots, storeUp \in BOOLEAN : CheckTtl(s, storeUp)

Next ==
    \/ \E ip \in ClientIps, input \in EmailInputs : ForgotStart(1, ip, input)
    \/ \E s \in Slots, storeUp \in BOOLEAN : ForgotIpLimit(s, storeUp)
    \/ \E s \in Slots, dbUp \in BOOLEAN : ForgotInitFilter(s, dbUp)
    \/ \E s \in Slots, dbUp \in BOOLEAN : ForgotFindUser(s, dbUp)
    \/ \E s \in Slots, storeUp \in BOOLEAN : ForgotUserLimit(s, storeUp)
    \/ \E s \in Slots, storeUp \in BOOLEAN : ForgotStoreToken(s, storeUp)
    \/ \E s \in Slots, dbUp \in BOOLEAN : ForgotAudit(s, dbUp)
    \/ \E s \in Slots : ForgotDelay(s)
    \/ \E shape \in ResetShapes, tokenId \in IssuableIds, token \in Secrets,
          newPassword \in NewPasswords :
            ResetStart(2, shape, tokenId, token, newPassword)
    \/ ResetSteps
    \/ \E wellFormed \in BOOLEAN, tokenId \in IssuableIds :
            CheckStart(2, wellFormed, tokenId)
    \/ CheckSteps
    \/ \E email \in SignupEmails : SignupOtpVerification(2, email)
    \/ \E t \in TokenIds : ExpireToken(t)

RaceNext ==
    \/ \E s \in Slots, shape \in ResetShapes, tokenId \in IssuableIds,
          token \in Secrets, newPassword \in NewPasswords :
            ResetStart(s, shape, tokenId, token, newPassword)
    \/ ResetSteps
    \/ \E t \in TokenIds : ExpireToken(t)

ReplayNext ==
    \/ \E shape \in ResetShapesWithNumber, token \in Secrets, newPassword \in NewPasswords :
            ResetStart(1, shape, 1, token, newPassword)
    \/ ResetSteps
    \/ \E wellFormed \in BOOLEAN : CheckStart(1, wellFormed, 1)
    \/ CheckSteps

LookupNext ==
    \/ \E shape \in ResetShapes, tokenId \in {NeverIssued, 1}, token \in Secrets,
          newPassword \in NewPasswords :
            ResetStart(1, shape, tokenId, token, newPassword)
    \/ ResetSteps
    \/ \E wellFormed \in BOOLEAN, tokenId \in {NeverIssued, 1} :
            CheckStart(1, wellFormed, tokenId)
    \/ CheckSteps
    \/ \E t \in TokenIds : ExpireToken(t)

\* one token is out; a forgot-password request and a reset-password request
\* run while the scheduled sends succeed or fail
MailInit ==
    /\ ProtoInit({1}, MaxRedeem, FALSE)
    /\ counters = CountersAfter(IpLimit - 1, UserLimit - 1, TokenLimit - 2)

MailNext ==
    \/ \E input \in {EmailA, EmailC} : ForgotStart(1, 1, input)
    \/ \E storeUp \in BOOLEAN : ForgotIpLimit(1, storeUp)
    \/ \E dbUp \in BOOLEAN : ForgotInitFilter(1, dbUp)
    \/ \E dbUp \in BOOLEAN : ForgotFindUser(1, dbUp)
    \/ \E storeUp \in BOOLEAN : ForgotUserLimit(1, storeUp)
    \/ \E storeUp \in BOOLEAN : ForgotStoreToken(1, storeUp)
    \/ \E dbUp \in BOOLEAN : ForgotAudit(1, dbUp)
    \/ ForgotDelay(1)
    \/ \E token \in Secrets, newPassword \in NewPasswords :
            ResetStart(2, "ok", 1, token, newPassword)
    \/ ResetSteps
    \/ \E i \in 1..(MaxForgot + MaxRedeem), ok \in BOOLEAN : SendMail(i, ok)

\* the next step of request s: the awaited call returns or fails, or the
\* timer of the delay fires
RequestStep(s) ==
    \/ \E storeUp \in BOOLEAN : ForgotIpLimit(s, storeUp)
    \/ \E dbUp \in BOOLEAN : ForgotInitFilter(s, dbUp)
    \/ \E dbUp \in BOOLEAN : ForgotFindUser(s, dbUp)
    \/ \E storeUp \in BOOLEAN : ForgotUserLimit(s, storeUp)
    \/ \E storeUp \in BOOLEAN : ForgotStoreToken(s, storeUp)
    \/ \E dbUp \in BOOLEAN : ForgotAudit(s, dbUp)
    \/ ForgotDelay(s)
    \/ \E storeUp \in BOOLEAN : ResetTokenLimit(s, storeUp)
    \/ \E storeUp \in BOOLEAN : ResetLookup(s, storeUp)
    \/ \E dbUp \in BOOLEAN : ResetUpdatePassword(s, dbUp)
    \/ \E storeUp \in BOOLEAN : ResetDelToken(s, storeUp)
    \/ \E storeUp \in BOOLEAN : ResetKeys(s, storeUp)
    \/ \E key \in TokenIds, storeUp \in BOOLEAN : ResetScanGet(s, key, storeUp)
    \/ \E storeUp \in BOOLEAN : ResetScanDel(s, storeUp)
    \/ \E storeUp \in BOOLEAN : ResetDelCounter(s, storeUp)
    \/ \E dbUp \in BOOLEAN : ResetAudit(s, dbUp)

\* two tokens of account 1 are out; forgot-password and reset-password
\* requests of every shape run side by side while tokens expire
LiveInit ==
    /\ ProtoInit({1, 2}, MaxRedeem, FALSE)
    /\ counters = CountersAfter(IpLimit - 1, UserLimit - 1, TokenLimit - 2)

LiveNext ==
    \/ \E ip \in ClientIps, input \in EmailInputs : ForgotStart(1, ip, input)
    \/ \E shape \in ResetShapesWithNumber, tokenId \in IssuableIds,
          token \in Secrets, newPassword \in NewPasswords :
            ResetStart(2, shape, tokenId, token, newPassword)
    \/ \E s \in Slots : RequestStep(s)
    \/ \E t \in TokenIds : ExpireToken(t)

\* account 1 has asked for a change of its address; confirm-email requests
\* for the pending change race each other
ConfirmInit ==
    /\ ProtoInit({}, 0, FALSE)
    /\ counters = [k \in ProtoKeys |-> Nil]
    /\ emailChange = PendingEmailChange
    /\ cache = [u \in UserIds |-> Nil]
    /\ profileCallsLeft = MaxProfileCalls

ConfirmNext ==
    \/ \E s \in Slots, hasFields \in BOOLEAN, id \in {1, 2}, token \in Secrets :
            ConfirmStart(s, hasFields, id, token)
    \/ \E s \in Slots, dbUp \in BOOLEAN : ConfirmFindRequest(s, dbUp)
    \/ \E s \in Slots, dbUp \in BOOLEAN : ConfirmFindTaken(s, dbUp)
    \/ \E s \in Slots, dbUp \in BOOLEAN : ConfirmTransaction(s, dbUp)
    \/ \E s \in Slots, storeUp \in BOOLEAN : ConfirmDelCache(s, storeUp)
    \/ \E s \in Slots, sent \in BOOLEAN : ConfirmNotify(s, sent)
    \/ EmailChangeExpires

\* account 1 is signed in and holds two reset tokens; profile reads and
\* updates run next to a reset-password request
ProfileInit ==
    /\ ProtoInit({1, 2}, MaxRedeem, FALSE)
    /\ counters = CountersAfter(IpLimit - 1, UserLimit - 1, TokenLimit - 2)
    /\ emailChange = Nil
    /\ cache = [u \in UserIds |-> Nil]
    /\ profileCallsLeft = MaxProfileCalls

ProfileNext ==
    \/ \E s \in Slots : GetProfileStart(s)
    \/ \E s \in Slots, storeUp \in BOOLEAN : GetProfileCache(s, storeUp)
    \/ \E s \in Slots, dbUp \in BOOLEAN : GetProfileFind(s, dbUp)
    \/ \E s \in Slots, storeUp \in BOOLEAN : GetProfileSet(s, storeUp)
    \/ \E s \in Slots, name \in NameInputs : PutProfileStart(s, name)
    \/ \E s \in Slots, dbUp \in BOOLEAN : PutProfileFind(s, dbUp)
    \/ \E s \in Slots, dbUp \in BOOLEAN : PutProfileUpdate(s, dbUp)
    \/ \E s \in Slots, storeUp \in BOOLEAN : PutProfileDelCache(s, storeUp)
    \/ \E s \in Slots, storeUp \in BOOLEAN : PutProfileSetCache(s, storeUp)
    \/ \E u \in UserIds : ProfileCacheExpires(u)
    \/ \E newPassword \in NewPasswords : ResetStart(2, "ok", 1, 1, newPassword)
    \/ ResetSteps

\* the process has just started; user "a" has an account
RefreshInit ==
    /\ users = [u \in UserIds |->
           IF u = 1 THEN [email |-> EmailA, password |-> <<"bcrypt", "p0">>,
                          name |-> "n", username |-> <<"a">>, updatedAt |-> 0]
           ELSE Nil]
    /\ tokens = [t \in TokenIds |-> Nil]
    /\ emailBits = EmptyBitArray(BloomSize)
    /\ isEmailInitialized = FALSE
    /\ slot = [s \in Slots |-> IdleSlot]
    /\ out = NoOutput
    /\ nextTokenId = 1
    /\ nForgot = 0
    /\ resetsLeft = 0
    /\ successes = [t \in TokenIds |-> 0]
    /\ expired = {}
    /\ mailbox = <<>>
    /\ counters = [k \in ProtoKeys |-> Nil]
    /\ isInitialized = FALSE
    /\ verifierCallsLeft = MaxVerifierCalls

RefreshNext ==
    \/ \E s \in Slots : VerifierRefresh(s)
    \/ \E s \in Slots, username \in Usernames : isUsernameTaken(s, username)
    \/ \E s \in Slots, dbUp \in BOOLEAN : VerifierFindMany(s, dbUp)
    \/ \E s \in Slots : initialize(s)
    \/ \E s \in Slots, dbUp \in BOOLEAN : VerifierFindUnique(s, dbUp)
    \/ \E s \in Slots : SignupCreateUser(s, 2, <<"b">>)
    \/ \E s \in Slots : addUsername(s)

VerifierIdle ==
    /\ isInitialized = FALSE
    /\ verifierCallsLeft = 0

ProfileIdle ==
    /\ emailChange = Nil
    /\ cache = [u \in UserIds |-> Nil]
    /\ profileCallsLeft = 0

RlIdle ==
    /\ rlTarget = "password_reset:rate:ip"
    /\ rlPending = [k \in RlKeys |-> 0]
    /\ rlStats = [k \in RlKeys |-> NoStats]
    /\ rlAge = [k \in RlKeys |-> 0]

ProtoIdle ==
    /\ users = [u \in UserIds |-> Nil]
    /\ tokens = [t \in TokenIds |-> Nil]
    /\ emailBits = EmptyBitArray(BloomSize)
    /\ isEmailInitialized = FALSE
    /\ slot = [s \in Slots |-> IdleSlot]
    /\ out = NoOutput
    /\ nextTokenId = 1
    /\ nForgot = 0
    /\ resetsLeft = 0
    /\ successes = [t \in TokenIds |-> 0]
    /\ expired = {}
    /\ mailbox = <<>>

AllInit == Init /\ BloomInit /\ RlIdle /\ VerifierIdle /\ ProfileIdle

Spec == AllInit /\ [][Next]_vars

AllRaceInit == RaceInit /\ BloomInit /\ RlIdle /\ VerifierIdle /\ ProfileIdle

SpecRace == AllRaceInit /\ [][RaceNext]_vars

AllReplayInit == ReplayInit /\ BloomInit /\ RlIdle /\ VerifierIdle /\ ProfileIdle

SpecReplay == AllReplayInit /\ [][ReplayNext]_vars

AllLookupInit == LookupInit /\ BloomInit /\ RlIdle /\ VerifierIdle /\ ProfileIdle

SpecLookup == AllLookupInit /\ [][LookupNext]_vars

AllRefreshInit == RefreshInit /\ BloomInit /\ RlIdle /\ ProfileIdle

SpecRefresh == AllRefreshInit /\ [][RefreshNext]_vars

AllMailInit == MailInit /\ BloomInit /\ RlIdle /\ VerifierIdle /\ ProfileIdle

SpecMail == AllMailInit /\ [][MailNext]_vars

AllLiveInit == LiveInit /\ BloomInit /\ RlIdle /\ VerifierIdle /\ ProfileIdle

\* every awaited call of a request eventually returns or fails, and the
\* timer of the delay eventually fires
SpecLive ==
    /\ AllLiveInit
    /\ [][LiveNext]_vars
    /\ \A s \in Slots : WF_vars(RequestStep(s))

AllConfirmInit == ConfirmInit /\ BloomInit /\ RlIdle /\ VerifierIdle

SpecConfirm == AllConfirmInit /\ [][ConfirmNext]_vars

AllProfileInit == ProfileInit /\ BloomInit /\ RlIdle /\ VerifierIdle

SpecProfile == AllProfileInit /\ [][ProfileNext]_vars

AllBloomInit == BloomInit /\ RlInit /\ ProtoIdle /\ VerifierIdle
                /\ ProfileIdle

SpecBloom == AllBloomInit /\ [][BloomNext]_vars

AllRlInit == RlInit /\ BloomInit /\ ProtoIdle /\ VerifierIdle
                /\ ProfileIdle

SpecRL == AllRlInit /\ [][RlNext]_vars

(***************************************************************************)
(* Properties                                                              *)
(***************************************************************************)

\* C1: for each limiter and each identity, of the N calls of one counter
\* window that reached the store, in whatever order the concurrent calls
\* ran, exactly min(N, limit) were allowed and the others were denied; the
\* counter never exceeds the limit.
C1_ExactlyMinAllowed ==
    \A key \in RlKeys :
        /\ rlStats[key].allowed =
              Min(rlStats[key].allowed + rlStats[key].denied, LimitOf(key))
        /\ counters[key] # Nil => counters[key].value = rlStats[key].allowed

\* calls were in flight together, the window is full and calls were denied
C1_Witness ==
    /\ rlStats[TokenRateKey(1)].allowed = TokenLimit
    /\ rlStats[TokenRateKey(1)].denied >= 1
    /\ rlPending[TokenRateKey(1)] >= 1

\* C2: of the reset-password requests that present the correct secret of
\* one live token, at most one ends in the success response.
C2_AtMostOneRedemption ==
    \A t \in TokenIds : successes[t] <= 1

\* C3: a reset-password request for a token id that starts after a success
\* response for that id, and whose store calls all succeed, is answered 400
\* "invalid or has expired" and updates no password; check-reset-token for
\* that id answers valid: false.
C3_ReplayAlwaysNotFound ==
    /\ (out.kind = "reset" /\ out.after /\ ~out.faulted) =>
            /\ out.resp = [status |-> 400,
                           message |-> "This reset link is invalid or has expired."]
            /\ "updatePassword" \notin out.did
    /\ (out.kind = "check" /\ out.after) => ~out.resp.valid

\* C3 as the handlers have it: such a request never succeeds and updates no
\* password; it is answered 400 "invalid or has expired" unless the token
\* limiter denies it (429) or a store call fails (500); check-reset-token
\* answers valid: false.
C3_ReplayRejected ==
    /\ (out.kind = "reset" /\ out.after) =>
            /\ "updatePassword" \notin out.did
            /\ out.resp.status # 200
            /\ out.metric = "token_rate_limited" => out.resp.status = 429
            /\ out.faulted => out.resp.status = 500
            /\ ~(out.metric = "token_rate_limited" \/ out.faulted) =>
                  out.resp = [status |-> 400,
                              message |-> "This reset link is invalid or has expired."]
    /\ (out.kind = "check" /\ out.after) => ~out.resp.valid

\* a request that presents the correct secret after the success response is
\* turned away as not found
C3_Witness ==
    /\ out.kind = "reset" /\ out.after
    /\ out.token = rawTokenOf(out.tokenId)
    /\ out.metric = "token_not_found"

\* C4: when reset-password answers success for an account, no other token
\* of that account stored before the answer is still in the store.
C4_NoSiblingLeft ==
    (out.kind = "reset" /\ out.metric = "success") => out.leftover = {}

\* C5: every forgot-password request that passes input validation is
\* answered with status 200 and the generic message, on every branch.
C5_UniformForgotResponse ==
    (out.kind = "forgot" /\ out.metric \notin {"invalid_input", "invalid_email"})
        => out.resp = [status |-> 200,
                       message |-> "If this email is registered, you will receive a password reset link."]

\* a request answered by the catch block
C5_Witness == out.kind = "forgot" /\ out.faulted

\* C6: reset-password answers a secret that does not match the stored
\* digest exactly as it answers a token that is not in the store.
C6_MismatchAnsweredAsNotFound ==
    (out.kind = "reset" /\ out.metric = "token_mismatch")
        => out.resp = ResetNotFoundResponse

\* C7: a forgot-password request that the email filter answers negatively
\* has queried no table of the system of record, run no account limiter
\* and stored no token.
C7_FilterMissTouchesNothing ==
    (out.kind = "forgot" /\ out.bloomCheck = "no")
        => out.did \cap {"findMany", "findUnique", "userLimiter", "setEx"} = {}

\* C11: a reset-password or check-reset-token request for a token id whose
\* record has expired is answered exactly as a request for a well-formed id
\* that was never issued: with the not-found answer of its route, unless the
\* token limiter denies it (429) or its store call fails (500 for
\* reset-password, 'Unable to verify token' for check-reset-token).
C11_ExpiredAnsweredAsNeverIssued ==
    /\ (out.kind = "reset" /\ out.gone \in {"expired", "never"}) =>
            out.resp =
                IF out.faulted
                THEN [status |-> 500,
                      message |-> "An error occurred. Please try again."]
                ELSE IF out.metric = "token_rate_limited"
                THEN [status |-> 429,
                      message |-> "Too many attempts. Please request a new reset link."]
                ELSE [status |-> 400,
                      message |-> "This reset link is invalid or has expired."]
    /\ (out.kind = "check" /\ out.gone \in {"expired", "never"}) =>
            out.resp =
                IF out.faulted
                THEN [status |-> 200, valid |-> FALSE,
                      message |-> "Unable to verify token"]
                ELSE [status |-> 200, valid |-> FALSE,
                      message |-> "This reset link has expired or is invalid"]

\* the correct secret of an expired token is turned away as not found
C11_Witness ==
    /\ out.kind = "reset" /\ out.gone = "expired"
    /\ out.token = rawTokenOf(out.tokenId)
    /\ out.metric = "token_not_found"

\* C12: whatever the counters hold, a call of checkIpRateLimit,
\* checkUserRateLimit or checkTokenRateLimit whose store operation fails
\* returns "not limited" (a value, nothing is raised) and changes no counter.
C12_LimitersFailOpen ==
    /\ [](LET open == [limited |-> FALSE, store |-> counters]
          IN  /\ checkIpRateLimit(counters, 1, FALSE) = open
              /\ \A userId \in {1, 2} :
                     checkUserRateLimit(counters, userId, FALSE) = open
              /\ checkTokenRateLimit(counters, 1, FALSE) = open)
    /\ [][\A key \in RlKeys :
             rlStats'[key].failedOpen > rlStats[key].failedOpen =>
                 counters' = counters]_vars

\* the store failed for a call that found its window full: the call passed
C12_Witness ==
    \E key \in RlKeys :
        /\ counters[key] # Nil
        /\ counters[key].value = LimitOf(key)
        /\ rlStats[key].failedOpen >= 1

\* C13: every rate-limit counter that exists holds a value from 1 to its
\* limit; a call that reaches the store and finds the counter at or above
\* the limit is denied, and a denied call leaves every counter as it was.
C13_CounterWithinLimit ==
    /\ [](\A key \in RlKeys :
              counters[key] # Nil => counters[key].value \in 1..LimitOf(key))
    /\ [][\A key \in RlKeys :
             /\ rlStats'[key].denied > rlStats[key].denied =>
                    /\ counters[key] # Nil
                    /\ counters[key].value >= LimitOf(key)
                    /\ counters' = counters
             /\ ( /\ rlPending'[key] < rlPending[key]
                  /\ rlStats'[key].failedOpen = rlStats[key].failedOpen
                  /\ counters[key] # Nil
                  /\ counters[key].value >= LimitOf(key) ) =>
                    /\ rlStats'[key].denied = rlStats[key].denied + 1
                    /\ counters' = counters]_vars

\* two calls were denied at a full counter
C13_Witness ==
    \E key \in RlKeys :
        /\ counters[key] # Nil
        /\ counters[key].value = LimitOf(key)
        /\ rlStats[key].denied = 2

\* C14: a reset-password request whose limiter call reached the store goes
\* on to the token lookup only by taking one of the TokenLimit units of the
\* token's counter; a request that finds the counter full is answered 429
\* without looking the token up, and its step changes no token record and
\* no password.
C14_AtMostTenReachLookup ==
    /\ [](out.kind = "reset" /\ out.metric = "token_rate_limited" =>
              /\ out.resp = [status |-> 429,
                             message |-> "Too many attempts. Please request a new reset link."]
              /\ out.did = {"tokenLimiter"})
    /\ [][\A s \in Slots :
             LET key  == TokenRateKey(slot[s].tokenId)
                 used == IF counters[key] = Nil THEN 0 ELSE counters[key].value
             IN  (slot[s].kind = "reset" /\ slot[s].pc = "tokenLimit") =>
                    /\ ( /\ slot'[s].pc = "lookup"
                         /\ "limiterFailed" \notin slot'[s].did ) =>
                            /\ used < TokenLimit
                            /\ counters'[key] # Nil
                            /\ counters'[key].value = used + 1
                    /\ (used >= TokenLimit /\ slot'[s].pc # "tokenLimit") =>
                            \/ "limiterFailed" \in slot'[s].did
                            \/ /\ out'.kind = "reset"
                               /\ out'.metric = "token_rate_limited"
                               /\ tokens' = tokens
                               /\ users' = users
                               /\ counters' = counters]_vars

\* the eleventh guess at a live token is turned away; the record and the
\* password are as they were
C14_Witness ==
    /\ out.kind = "reset" /\ out.metric = "token_rate_limited"
    /\ out.tokenId = 1
    /\ tokens[1] = IssuedToken(1)
    /\ users[1].password = <<"bcrypt", "p0">>
    /\ counters[TokenRateKey(1)].value = TokenLimit

\* C15: a forgot-password request that passed input validation, met no
\* failure and took one of the five branches (caller limited, filter miss,
\* account absent, account limited, token issued) has appended exactly one
\* audit record, and the record's outcome is the one of that branch.
C15_OneAuditPerForgot ==
    ( /\ out.kind = "forgot"
      /\ out.metric \in {"ip_rate_limited", "bloom_miss", "user_not_found",
                         "user_rate_limited", "success"}
      /\ ~out.faulted
      /\ "auditFailed" \notin out.did ) =>
        /\ Len(out.audits) = 1
        /\ out.audits[1].outcome =
              CASE out.metric = "ip_rate_limited" -> "ip_rate_limited"
                [] out.metric = "bloom_miss" -> "bloom_miss"
                [] out.metric = "user_not_found" -> "user_not_found"
                [] out.metric = "user_rate_limited" -> "user_rate_limited"
                [] OTHER -> "requested"

\* C16: a reset-password request that passed input validation, met no
\* failure and took one of the four branches (token limited, token not
\* found, secret mismatch, password reset) has appended exactly one audit
\* record, and the record's outcome is the one of that branch.
C16_OneAuditPerReset ==
    ( /\ out.kind = "reset"
      /\ out.metric \in {"token_rate_limited", "token_not_found",
                         "token_mismatch", "success"}
      /\ ~out.faulted
      /\ "auditFailed" \notin out.did ) =>
        /\ Len(out.audits) = 1
        /\ out.audits[1].outcome =
              CASE out.metric = "token_rate_limited" -> "token_rate_limited"
                [] out.metric = "token_not_found" -> "token_not_found"
                [] out.metric = "token_mismatch" -> "token_mismatch"
                [] OTHER -> "reset"

\* C17: in both flows the step that writes the audit record has the same
\* effect whether the write succeeds or fails, the record apart: the request
\* goes on as it would (the issuing branch of forgot-password and
\* reset-password answer their success response, the other branches go to
\* the delay), the handler's catch block is not entered, and no token
\* record, counter or password changes.
C17_AuditFailureChangesNothing ==
    /\ [](out.kind \in {"forgot", "reset"} /\ "auditFailed" \in out.did =>
              /\ ~out.faulted
              /\ out.resp = IF out.kind = "reset" THEN ResetSuccessResponse
                            ELSE [status |-> 200, message |-> GenericMessage])
    /\ [][\A s \in Slots :
             (slot[s].pc = "audit" /\ slot'[s] # slot[s]) =>
                /\ tokens' = tokens /\ counters' = counters /\ users' = users
                /\ IF slot[s].kind = "reset"
                   THEN /\ out'.kind = "reset" /\ ~out'.faulted
                        /\ out'.resp = ResetSuccessResponse
                   ELSE IF slot[s].metric = "success"
                   THEN /\ out'.kind = "forgot" /\ ~out'.faulted
                        /\ out'.resp = ForgotSuccessResponse
                        /\ out'.mail = slot[s].mail
                   ELSE /\ slot'[s].pc = "delay"
                        /\ slot'[s].metric = slot[s].metric]_vars

\* the password was reset, the audit write failed, the caller got the
\* success response
C17_Witness ==
    /\ out.kind = "reset"
    /\ "auditFailed" \in out.did
    /\ out.audits = <<>>
    /\ out.resp = ResetSuccessResponse
    /\ users[1].password = hashPasswordArgon2(out.newPassword)

\* C18: a forgot-password request that met a failure after input validation
\* (building the filter, the account lookup, the token write) is answered
\* 200 with the generic message and has handed off no email; any request
\* that handed off an email had stored the record of the token it mails.
C18_FailedForgotStaysGeneric ==
    out.kind = "forgot" =>
        /\ out.faulted =>
              /\ out.resp.status = 200
              /\ out.resp.message =
                    "If this email is registered, you will receive a password reset link."
              /\ out.mail = Nil
        /\ out.mail # Nil =>
              /\ "setEx" \in out.did
              /\ out.mail.tokenId = out.tokenId
              /\ out.mail.rawToken = out.token

\* the token write failed: generic answer, no record, no email
C18_Witness ==
    /\ out.kind = "forgot" /\ out.faulted
    /\ out.tokenId \in IssuableIds
    /\ "setEx" \notin out.did
    /\ tokens[out.tokenId] = Nil
    /\ out.mail = Nil

\* C19: every check-reset-token answer that reports a token id as not
\* valid is the same response, whatever made the id invalid (never issued,
\* malformed, expired, consumed, failed lookup).
C19_OneInvalidAnswer ==
    (out.kind = "check" /\ ~out.resp.valid) =>
        out.resp = [status |-> 200, valid |-> FALSE,
                    message |-> "This reset link has expired or is invalid"]

\* C20: every token record in the store holds the account id, the keyed
\* digest of the token's secret, the address and the time to live, and the
\* digest is not the secret; no rate-limit counter is keyed by or holds a
\* secret; no audit record of a request has a field for the secret; of what
\* forgot-password gives out, only the email hand-off carries the secret
\* (the response has a status and a message only), and the email that
\* reset-password hands off carries the address and the caller only.
C20_NoPlaintextSecretStored ==
    /\ \A t \in TokenIds :
          tokens[t] # Nil =>
            /\ DOMAIN tokens[t] = {"userId", "tokenHash", "email", "ttl"}
            /\ tokens[t].tokenHash = hmacHash(rawTokenOf(t))
            /\ tokens[t].tokenHash # rawTokenOf(t)
    /\ \A key \in DOMAIN counters :
          /\ key[1] = "password_reset:validate:token" => key[2] \in TokenIds
          /\ counters[key] # Nil => DOMAIN counters[key] = {"value", "expire"}
    /\ \A r \in {slot[s] : s \in Slots} \cup
                 (IF out.kind \in {"forgot", "reset"} THEN {out} ELSE {}) :
          /\ \A i \in 1..Len(r.audits) :
                /\ DOMAIN r.audits[i] = {"userId", "outcome", "meta"}
                /\ DOMAIN r.audits[i].meta \subseteq {"tokenId", "email", "none"}
          /\ (r.kind = "forgot" /\ r.resp # Nil) =>
                DOMAIN r.resp = {"status", "message"}
          /\ (r.mail # Nil /\ r.kind # "forgot") =>
                DOMAIN r.mail = {"email", "ip"}

\* a token was issued: its record is in the store, the audit record is
\* written and the email hand-off holds the secret
C20_Witness ==
    /\ out.kind = "forgot" /\ out.metric = "success"
    /\ tokens[out.tokenId] # Nil
    /\ Len(out.audits) = 1
    /\ out.mail # Nil
    /\ out.mail.rawToken = rawTokenOf(out.tokenId)

\* C21: add(k) called right after add(k) leaves the filter as the first
\* call left it: the same bit array and the same element count (and so the
\* same getStats and getFalsePositiveProbability).
C21_AddIdempotent ==
    (bfLast.op = "add" /\ bfLast.repeated) =>
        /\ bitArray = bfLast.bitsBefore
        /\ elementCount = bfLast.countBefore

\* C22: take two keys that are the same up to letter case and up to spaces
\* before and after.  In every filter state add sets the same bits for both,
\* mightExist answers the same for both, and after add of one mightExist of
\* the other is true; the filter left by the last add call answers true for
\* every such variant of the key it was given.
C22_VariantsMapIdentically ==
    LET Fits(k) == Len(k) <= MaxKeyLen
        Padded(c) == {k \in {c, <<" ">> \o c, c \o <<" ">>} : Fits(k)}
        Cores == {c \in Strings(MaxKeyLen) :
                     c = <<>> \/ (c[1] # " " /\ c[Len(c)] # " ")}
        SameLetters(x, y) ==
            /\ Len(x) = Len(y)
            /\ \A i \in 1..Len(x) :
                   x[i] = y[i] \/ {x[i], y[i]} = {"a", "A"}
        Variants == {p \in Cores \X Cores : SameLetters(p[1], p[2])}
    IN  \A p \in Variants : \A k1 \in Padded(p[1]), k2 \in Padded(p[2]) :
            /\ BloomAdd(bitArray, k1) = BloomAdd(bitArray, k2)
            /\ BloomMightExist(bitArray, k1) = BloomMightExist(bitArray, k2)
            /\ BloomMightExist(BloomAdd(bitArray, k1), k2)
            /\ (bfLast.op = "add" /\ bfLast.key = k1) =>
                    BloomMightExist(bitArray, k2)

\* add(" A") has made mightExist("a ") true
C22_Witness ==
    /\ bfLast.op = "add"
    /\ bfLast.key = <<" ", "A">>
    /\ ~BloomMightExist(bfLast.bitsBefore, <<"a", " ">>)
    /\ BloomMightExist(bitArray, <<"a", " ">>)

\* C23: with refresh(), lookups and signups running interleaved, an
\* isUsernameTaken call for a username whose account was in the system of
\* record, its signup complete, when the call started, and whose database
\* calls succeed, never answers that the username is available.
C23_RegisteredNeverAvailable ==
    (out.kind = "lookup" /\ out.registered /\ ~out.faulted) =>
        ~out.resp.available

\* C25: in every forgot-password request, in flight or answered, each step
\* has been taken only after the steps before it and only if their checks
\* passed: the filter is built or tested after the caller limiter allowed;
\* the account lookup after a filter hit; the account limiter after the
\* lookup found the account; the token record is stored after the account
\* limiter allowed; the email is handed off after the record is stored; the
\* "requested" audit record is written after the hand-off; and the success
\* response follows all of them.
C25_ForgotStepsInOrder ==
    \A r \in {slot[s] : s \in Slots} \cup {out} :
        r.kind = "forgot" =>
            /\ ("findMany" \in r.did \/ r.bloomCheck # "unknown") =>
                    /\ "ipLimiter" \in r.did
                    /\ r.metric # "ip_rate_limited"
            /\ "findUnique" \in r.did =>
                    /\ r.bloomCheck = "yes"
            /\ "userLimiter" \in r.did =>
                    /\ "findUnique" \in r.did
                    /\ r.userId # 0
                    /\ r.metric # "user_not_found"
            /\ "setEx" \in r.did =>
                    /\ "userLimiter" \in r.did
                    /\ r.metric = "success"
                    /\ r.tokenId \in IssuableIds
            /\ r.mail # Nil => "setEx" \in r.did
            /\ (r.audits # <<>> /\ r.audits[1].outcome = "requested") =>
                    r.mail # Nil
            /\ (r.pc = "done" /\ r.metric = "success") =>
                    /\ r.did \ {"findMany", "limiterFailed", "auditFailed"} =
                            {"ipLimiter", "findUnique", "userLimiter", "setEx"}
                    /\ r.mail # Nil
                    /\ "auditFailed" \notin r.did => Len(r.audits) = 1

\* a request went through every step: filter built, account found, token
\* stored, email handed off, audit record written, success answered
C25_Witness ==
    /\ out.kind = "forgot" /\ out.metric = "success"
    /\ out.did = {"ipLimiter", "findMany", "findUnique", "userLimiter", "setEx"}
    /\ out.mail # Nil
    /\ Len(out.audits) = 1
    /\ out.audits[1].outcome = "requested"

\* C26: in every reset-password request that verified its secret, in flight
\* or answered, each step has been taken only after the steps before it:
\* the redeemed record is deleted after the password update, the other
\* records of the account are scanned after that, the window counter is
\* cleared after the scan, the audit record is written after the counter is
\* cleared, the change notification is handed off after the audit write,
\* and the success response follows the hand-off.
C26_ResetStepsInOrder ==
    \A r \in {slot[s] : s \in Slots} \cup {out} :
        r.kind = "reset" =>
            /\ (r.pc = "delToken" \/ "delToken" \in r.did) =>
                    "updatePassword" \in r.did
            /\ r.pc \in {"keys", "scan", "scanDel", "delCounter"} =>
                    "delToken" \in r.did
            /\ "delCounter" \in r.did => "delToken" \in r.did
            /\ r.audits # <<>> => "delCounter" \in r.did
            /\ r.mail # Nil =>
                    r.audits # <<>> \/ "auditFailed" \in r.did
            /\ (r.pc = "done" /\ r.metric = "success") => r.mail # Nil

\* C27: whenever the row of an account changes, the step is
\* the password update of a reset-password request that the token limiter
\* let through, that read a token record bound to that account, and whose
\* presented secret has the digest held in that record; the new password is
\* the hash of the one the request carries, the row's update time moves on,
\* and no other account's row changes in that step.
C27_PasswordChangesOnlyByVerifiedReset ==
    [][\A u \in UserIds :
          (users[u] # Nil /\ users'[u] # users[u]) =>
             \E s \in Slots :
                /\ slot[s].kind = "reset" /\ slot[s].pc = "updatePassword"
                /\ slot'[s] # slot[s]
                /\ {"tokenLimiter", "get"} \subseteq slot[s].did
                /\ slot[s].tokenData # Nil
                /\ slot[s].tokenData.userId = u
                /\ slot[s].tokenData.tokenHash = hmacHash(rawTokenOf(slot[s].tokenId))
                /\ hmacHash(slot[s].token) = slot[s].tokenData.tokenHash
                /\ users'[u] = [users[u] EXCEPT !.password =
                                    hashPasswordArgon2(slot[s].newPassword),
                                                !.updatedAt = @ + 1]
                /\ \A v \in UserIds \ {u} : users'[v] = users[v]]_vars

\* a request has passed the limiter, read the record, matched the digest
\* and changed the password of the record's account
C27_Witness ==
    \E s \in Slots :
        /\ slot[s].kind = "reset"
        /\ slot[s].pc = "delToken"
        /\ slot[s].did = {"tokenLimiter", "get", "updatePassword"}
        /\ users[slot[s].tokenData.userId].password =
               hashPasswordArgon2(slot[s].newPassword)

\* C28: a reset-password request that is answered with anything but the
\* success response (400, 429 or 500) has written no password.
C28_FailedResetWritesNoPassword ==
    (out.kind = "reset" /\ out.resp.status # 200) =>
        "updatePassword" \notin out.did

\* C29: a reset-password request that presents a wrong secret for a live
\* token is answered 400 "Invalid reset token." having done nothing but the
\* limiter call and the lookup; the step that answers it changes no token
\* record, no password and no counter; and every live record keeps its
\* time to live and the digest of its secret, so the correct secret still
\* verifies against it.
C29_WrongSecretLeavesRecord ==
    /\ [](out.kind = "reset" /\ out.metric = "token_mismatch" =>
              /\ out.resp = [status |-> 400, message |-> "Invalid reset token."]
              /\ out.did \ {"limiterFailed"} = {"tokenLimiter", "get"})
    /\ [](\A t \in TokenIds :
              tokens[t] # Nil =>
                 /\ tokens[t].ttl = TOKEN_TTL
                 /\ timingSafeEqual(hmacHash(rawTokenOf(t)), tokens[t].tokenHash))
    /\ [][\A s \in Slots :
             ( /\ slot[s].kind = "reset" /\ slot[s].pc = "lookup"
               /\ out'.kind = "reset" /\ out'.metric = "token_mismatch" ) =>
                 /\ tokens' = tokens
                 /\ users' = users
                 /\ counters' = counters]_vars

\* a wrong secret was turned away; the token and its sibling are as issued
\* and the window has attempts left
C29_Witness ==
    /\ out.kind = "reset" /\ out.metric = "token_mismatch"
    /\ out.tokenId = 1
    /\ tokens[1] = IssuedToken(1)
    /\ tokens[2] = IssuedToken(2)
    /\ counters[TokenRateKey(1)] # Nil
    /\ counters[TokenRateKey(1)].value < TokenLimit
    /\ users[1].password = <<"bcrypt", "p0">>

\* C30: the counter of the account limiter for account X changes only in
\* the limiter step of a forgot-password request whose lookup found X, and
\* then by one unit, never beyond UserLimit; a token record for X is stored
\* only by a request that the account limiter let through; and a request
\* whose limiter call reached the store and found the counter full stores
\* nothing and goes to the "user_rate_limited" audit.
C30_AccountLimiterGuardsIssuing ==
    [][/\ \A u \in UserIds :
            counters'[UserKey(u)] # counters[UserKey(u)] =>
               \E s \in Slots :
                  LET used == IF counters[UserKey(u)] = Nil THEN 0
                              ELSE counters[UserKey(u)].value
                  IN  /\ slot[s].kind = "forgot" /\ slot[s].pc = "userLimit"
                      /\ slot'[s] # slot[s]
                      /\ "findUnique" \in slot[s].did
                      /\ slot[s].userId = u
                      /\ users[u] # Nil /\ users[u].email = slot[s].email
                      /\ used < UserLimit
                      /\ counters'[UserKey(u)].value = used + 1
       /\ \A t \in TokenIds :
            (tokens[t] = Nil /\ tokens'[t] # Nil) =>
               \E s \in Slots :
                  /\ slot[s].kind = "forgot" /\ slot[s].pc = "storeToken"
                  /\ slot[s].tokenId = t
                  /\ tokens'[t].userId = slot[s].userId
                  /\ "userLimiter" \in slot[s].did
                  /\ \/ "limiterFailed" \in slot[s].did
                     \/ /\ counters[UserKey(slot[s].userId)] # Nil
                        /\ counters[UserKey(slot[s].userId)].value \in 1..UserLimit
       /\ \A s \in Slots :
            ( /\ slot[s].kind = "forgot" /\ slot[s].pc = "userLimit"
              /\ slot'[s] # slot[s]
              /\ counters[UserKey(slot[s].userId)] # Nil
              /\ counters[UserKey(slot[s].userId)].value >= UserLimit
              /\ "limiterFailed" \notin slot'[s].did ) =>
                 /\ slot'[s].pc = "audit"
                 /\ slot'[s].metric = "user_rate_limited"
                 /\ counters' = counters
                 /\ tokens' = tokens]_vars

\* the fifth token of the window has been stored for the account
C30_Witness ==
    /\ out.kind = "forgot" /\ out.metric = "success"
    /\ "limiterFailed" \notin out.did
    /\ counters[UserKey(out.userId)].value = UserLimit
    /\ tokens[out.tokenId] # Nil
    /\ tokens[out.tokenId].userId = out.userId

\* C31: every rate-limit counter that exists has a time to live; the call
\* that creates the counter sets it to the window of its limiter (3600 s
\* for the caller and account limiters, 300 s for the token limiter); a
\* later call, allowed, denied or failed, leaves it as it is; so the time
\* left and the counter's age add up to the window, and the counter is
\* removed at the moment its age reaches the window.
C31_CounterExpiresWithWindow ==
    /\ IpWindow = 3600 /\ UserWindow = 3600 /\ TokenWindow = 300
    /\ [](\A key \in RlKeys :
              counters[key] # Nil =>
                 /\ counters[key].expire > 0
                 /\ counters[key].expire + rlAge[key] = WindowOf(key))
    /\ [][\A key \in RlKeys :
             /\ (counters[key] = Nil /\ counters'[key] # Nil) =>
                    /\ counters'[key].value = 1
                    /\ counters'[key].expire = WindowOf(key)
             /\ (counters[key] # Nil /\ rlPending' # rlPending) =>
                    /\ counters'[key] # Nil
                    /\ counters'[key].expire = counters[key].expire
             /\ (counters[key] # Nil /\ counters'[key] = Nil) =>
                    /\ rlAge'[key] = 0
                    /\ rlAge[key] + counters[key].expire = WindowOf(key)
                    /\ \A k \in RlKeys :
                           counters'[k] # Nil =>
                              rlAge'[k] = rlAge[k] + counters[key].expire]_vars

\* a counter is two thirds through its window, full, and a call was denied
C31_Witness ==
    \E key \in RlKeys :
        /\ counters[key] # Nil
        /\ counters[key].value = LimitOf(key)
        /\ rlStats[key].denied >= 1
        /\ counters[key].expire * 3 = WindowOf(key)

\* C32: within a window (no counter expiring), a rate-limit counter is
\* removed or lowered by one step only: the counter-clearing step of a
\* reset-password request that has verified its secret and updated the
\* password.  The step removes the token counter of the request's own token
\* id and changes no other counter; the request is then answered with the
\* success response.  Caller and account counters are never removed or
\* lowered by forgot-password or reset-password.
C32_OnlyRedemptionClearsCounter ==
    /\ [](out.kind = "reset" /\ "delCounter" \in out.did =>
              /\ out.metric = "success"
              /\ "updatePassword" \in out.did)
    /\ [][\A key \in ProtoKeys :
             ( /\ counters[key] # Nil
               /\ \/ counters'[key] = Nil
                  \/ counters'[key].value < counters[key].value ) =>
                 /\ key[1] = "password_reset:validate:token"
                 /\ counters' = [counters EXCEPT ![key] = Nil]
                 /\ \E s \in Slots :
                       /\ slot[s].kind = "reset" /\ slot[s].pc = "delCounter"
                       /\ slot[s].tokenId = key[2]
                       /\ "updatePassword" \in slot[s].did
                       /\ slot'[s].pc = "audit"]_vars

\* token 1 was redeemed: its counter is gone, the caller's and the
\* account's counters are still there
C32_Witness ==
    /\ out.kind = "reset" /\ out.metric = "success"
    /\ out.tokenId = 1
    /\ counters[TokenRateKey(1)] = Nil
    /\ counters[IpKey(1)] # Nil
    /\ counters[UserKey(1)] # Nil

\* C33: every forgot-password request that passes input validation and is
\* answered before the end of the issuing chain (caller limited, filter
\* miss, account absent, account limited, or a failure caught by the
\* handler) has gone through the randomized delay before its response.
C33_EarlyExitDelays ==
    ( /\ out.kind = "forgot"
      /\ out.metric \notin {"invalid_input", "invalid_email", "success"} ) =>
        "delay" \in out.did

\* C34: a forgot-password or reset-password request whose input is not
\* well formed is answered 400 and has had no effect: it has run no
\* limiter, read or written no token record, queried no table and written
\* no audit record.
C34_MalformedAnsweredFirst ==
    ( \/ out.kind = "forgot" /\ out.metric \in {"invalid_input", "invalid_email"}
      \/ out.kind = "reset" /\ out.shape # "ok" ) =>
        /\ out.resp.status = 400
        /\ out.did = {}
        /\ out.audits = <<>>

\* C35: the outcome of an email send affects neither flow.  A request that
\* has handed off its email can always take its next step, whatever has
\* become of the send, and is answered with the success response of its
\* route; the step in which a send succeeds or fails changes no token
\* record, no counter, no password and no request in progress (its audit
\* records included).
C35_SendOutcomeAffectsNothing ==
    /\ [](out.kind \in {"forgot", "reset"} /\ out.mail # Nil =>
              /\ ~out.faulted
              /\ out.resp =
                    IF out.kind = "reset"
                    THEN [status |-> 200,
                          message |-> "Password has been reset successfully."]
                    ELSE [status |-> 200,
                          message |-> "If this email is registered, you will receive a password reset link."])
    /\ [](\A s \in Slots :
              (slot[s].kind \in {"forgot", "reset"} /\ slot[s].mail # Nil) =>
                 /\ slot[s].pc = "audit"
                 /\ IF slot[s].kind = "reset" THEN ENABLED ResetAudit(s, TRUE)
                    ELSE ENABLED ForgotAudit(s, TRUE))
    /\ [][(\E i \in DOMAIN mailbox :
               i \in DOMAIN mailbox' /\ mailbox'[i].state # mailbox[i].state) =>
             /\ tokens' = tokens
             /\ counters' = counters
             /\ users' = users
             /\ slot' = slot]_vars

\* reset-password has answered success while its notification is still
\* scheduled, after the send of the reset link had failed
C35_Witness ==
    /\ out.kind = "reset" /\ out.metric = "success"
    /\ Len(out.audits) = 1
    /\ \E i, j \in DOMAIN mailbox :
          /\ mailbox[i].mail = out.mail
          /\ mailbox[i].state = "scheduled"
          /\ "rawToken" \in DOMAIN mailbox[j].mail
          /\ mailbox[j].state = "failed"

\* C36: a forgot-password request that the filter let through, whose
\* address the account lookup did not find, and whose audit write reached a
\* working database, has left one audit record with outcome user_not_found.
C36_UnknownAccountAudited ==
    ( /\ out.kind = "forgot"
      /\ out.metric = "user_not_found"
      /\ out.bloomCheck = "yes"
      /\ "auditFailed" \notin out.did ) =>
        /\ Len(out.audits) = 1
        /\ out.audits[1].outcome = "user_not_found"

\* C37: a check-reset-token answer with valid: true carries an expiresIn
\* greater than zero, also when the record expires or is deleted between
\* the request's read of the record and its read of the time to live.
C37_ValidHasPositiveLifetime ==
    (out.kind = "check" /\ out.resp.valid) => out.resp.expiresIn > 0

\* C38: the email-change verification token is single-use: for the one
\* pending change the confirmations write the account's row at most once
\* (the row's update count, which only the confirming transaction moves
\* here, stays at most 1), and a success answer reports that first write.
C38_ConfirmAppliesOnce ==
    /\ users[PendingEmailChange.userId].updatedAt <= 1
    /\ (out.kind = "confirm" /\ out.metric = "success")
           => out.tokenData.updatedAt <= 1

\* C39: while no request that writes a user row (PUT /profile,
\* confirm-email, reset-password) is in progress, a cached profile equals
\* the public fields of the account's current row.
C39_CacheMatchesRow ==
    (\A s \in Slots : slot[s].kind \notin {"put", "confirm", "reset"})
        => \A u \in UserIds :
              (cache[u] # Nil /\ users[u] # Nil)
                  => cache[u] = pickPublicFields(u, users[u])

\* C40: every forgot-password and reset-password request is eventually
\* answered, whatever branch it takes and whichever of its calls fail, and
\* the step that ends a request is the one that sends its response: the
\* response carries the request's kind and an HTTP status, and the request
\* takes no step after it.
C40_EveryRequestAnswered ==
    /\ \A s \in Slots : (slot[s].pc # "idle") ~> (slot[s].pc = "idle")
    /\ [][\A s \in Slots :
            (slot[s].pc # "idle" /\ slot'[s] # slot[s])
                => \/ slot'[s].pc \notin {"idle", "done"} /\ out' = NoOutput
                   \/ /\ slot'[s] = IdleSlot
                      /\ out'.kind = slot[s].kind
                      /\ out'.pc = "done"
                      /\ out'.resp.status \in {200, 400, 429, 500}]_vars

\* a forgot-password request has been answered after its delay while a
\* reset-password request that ran into a failed call is past its rate
\* limit test
C40_Witness ==
    /\ out.kind = "forgot"
    /\ "delay" \in out.did
    /\ out.resp.status = 200
    /\ slot[2].kind = "reset"
    /\ slot[2].pc \notin {"idle", "tokenLimit"}

\* C8: a mightExist(k) call made after add(k), with any adds in between and
\* no clear() since, returns true.
C8_NoFalseNegative ==
    (bfLast.op = "mightExist" /\ bfLast.added) => bfLast.result

\* mightExist answered true for a key added before two further adds
C8_Witness ==
    /\ bfLast.op = "mightExist"
    /\ bfLast.added
    /\ bfLast.result
    /\ elementCount = MaxAdds

\* C9: a forgot-password request for an address registered when the request
\* starts, denied by neither limiter and with every store and database call
\* succeeding, stores one token for the account with the 15-minute TTL,
\* hands its id and secret to the mail queue and writes one audit row with
\* outcome 'requested'.
C9_RegisteredRequestIssues ==
    (/\ out.kind = "forgot"
     /\ out.registered
     /\ out.metric \notin {"ip_rate_limited", "user_rate_limited"}
     /\ ~out.faulted /\ "auditFailed" \notin out.did)
        => /\ "setEx" \in out.did
           /\ out.mail = [email |-> out.email, name |-> "n",
                          tokenId |-> out.tokenId, rawToken |-> out.token]
           /\ Len(out.audits) = 1
           /\ out.audits[1].outcome = "requested"

\* C10: once the email filter is built, every address stored in the system
\* of record is reported as possibly present.
C10_StoredAddressesPossiblyPresent ==
    isEmailInitialized =>
        \A u \in UserIds :
            users[u] # Nil => emailMightExist(emailBits, users[u].email)
====
